---- MODULE Spec2Model ----
(***************************************************************************)
(* A model of github.com/upstash/rdb: the byte source abstraction          *)
(* (buffer.go), the value and stream decoders (reader.go,                  *)
(* stream_reader.go), the snapshot reader loop (file_reader.go), the       *)
(* snapshot encoder (encoder.go, collection_encoders.go,                   *)
(* rdb_file_writer.go) and the stream writers (stream_writer.go,           *)
(* stream_encoder.go).                                                     *)
(*                                                                         *)
(* Conventions.  A byte is a number in 0..255 and a Go string or []byte is *)
(* a sequence of bytes.  A uint64 is a sequence of 8 bytes, most           *)
(* significant byte first, so that 64-bit values (CRCs, stream IDs, times, *)
(* the JSON module id) keep their full width.                              *)
(***************************************************************************)
EXTENDS Integers, Sequences, FiniteSets, TLC

VARIABLES
    bfile,      \* buffer spec: the bytes of the file both buffers read
    fb,         \* buffer spec: the fileBackedBuffer object
    mb,         \* buffer spec: the memoryBackedBuffer object
    lastGet,    \* buffer spec: request and outcome of the latest Get call
    wire,       \* stream spec: the encoded stream and what it was made from
    dec,        \* stream spec: the outcome of decoding the payload
    encoder,    \* the FileEncoder, its open collection and what it wrote
    rf,         \* the activation of ReadFile: file, reader, handler, outcome
    call,       \* one function under study: its arguments, progress, result
    vf          \* the verifier under study and what it was given

vars == <<bfile, fb, mb, lastGet, wire, dec, encoder, rf, call, vf>>

(***************************************************************************)
(* (CHOOSE the \in {e : x \in {d}} : TRUE) is e with x standing for the    *)
(* value of d: the result d of a call is computed once, and then used as   *)
(* x.  Read from the bottom, the lines ": x \in {d} } : TRUE)" are the     *)
(* statements x := d of the code in the order of the code.  Where a        *)
(* function of the code loops, the statements of one turn of the loop that *)
(* come before its last call are a definition of their own, so that the    *)
(* next turn starts from its value.                                        *)
(***************************************************************************)
\* no function and no verifier under study
NoCall == [op |-> "none"]

NoVerify == [op |-> "none"]

(***************************************************************************)
(* Bounds of the explored inputs.                                          *)
(***************************************************************************)
MaxFileLen == 12
MaxBufCap == 6
MaxGet == 4

(***************************************************************************)
(* Bytes and 64-bit words.                                                 *)
(***************************************************************************)
Byte == 0..255

Bit(x, k) == (x \div (2 ^ k)) % 2

XorByte(a, b) ==
    LET x(k) == (Bit(a, k) + Bit(b, k)) % 2
    IN  ((x(0) + 2 * x(1)) + (4 * x(2) + 8 * x(3)))
          + ((16 * x(4) + 32 * x(5)) + (64 * x(6) + 128 * x(7)))

ReverseByte(a) ==
    128 * Bit(a, 0) + 64 * Bit(a, 1) + 32 * Bit(a, 2) + 16 * Bit(a, 3)
      + 8 * Bit(a, 4) + 4 * Bit(a, 5) + 2 * Bit(a, 6) + Bit(a, 7)

Zero64 == <<0, 0, 0, 0, 0, 0, 0, 0>>

\* x ^ y on uint64
Xor64(a, b) ==
    <<XorByte(a[1], b[1]), XorByte(a[2], b[2]), XorByte(a[3], b[3]),
      XorByte(a[4], b[4]), XorByte(a[5], b[5]), XorByte(a[6], b[6]),
      XorByte(a[7], b[7]), XorByte(a[8], b[8])>>

\* x >> 8 on uint64
Shr8(a) == <<0, a[1], a[2], a[3], a[4], a[5], a[6], a[7]>>

\* x << 1 on uint64
Shl1(a) ==
    LET s(i) == ((2 * a[i]) % 256) + (IF i < 8 THEN a[i + 1] \div 128 ELSE 0)
    IN  <<s(1), s(2), s(3), s(4), s(5), s(6), s(7), s(8)>>

\* bits.Reverse64
Reverse64(a) ==
    <<ReverseByte(a[8]), ReverseByte(a[7]), ReverseByte(a[6]),
      ReverseByte(a[5]), ReverseByte(a[4]), ReverseByte(a[3]),
      ReverseByte(a[2]), ReverseByte(a[1])>>

\* the bytes of a word in the opposite byte order
Swap64(a) == <<a[8], a[7], a[6], a[5], a[4], a[3], a[2], a[1]>>

\* uint64(n) for a number below 2^31
U64(n) ==
    <<0, 0, 0, 0, (n \div 16777216) % 256, (n \div 65536) % 256,
      (n \div 256) % 256, n % 256>>

MinInt(a, b) == IF a < b THEN a ELSE b

MaxInt(a, b) == IF a > b THEN a ELSE b

Zeros(k) == [j \in 1..k |-> 0]

(***************************************************************************)
(* CRC-64 (crc64.go).                                                      *)
(***************************************************************************)
crcLen == 8

poly == <<173, 147, 210, 53, 148, 201, 53, 169>>

\* the inner loop of buildCrc64Table for table index i, from bit j on
RECURSIVE crcTableBits(_, _, _)
crcTableBits(i, j, crc) ==
    IF j > 7 THEN crc
    ELSE LET top == crc[1] \div 128
             bit == IF Bit(i, j) # 0 THEN 1 - top ELSE top
         IN  (CHOOSE the \in {
                 crcTableBits(i, j + 1,
                     IF bit # 0 THEN Xor64(shifted, poly) ELSE shifted)
               : shifted \in {Shl1(crc)} } : TRUE)

crc64Table == [i \in 0..255 |-> Reverse64(crcTableBits(i, 0, Zero64))]

\* crc64.Update over the bytes k..n of the payload, one half of them after
\* the other
RECURSIVE crcUpdate(_, _, _, _)
crcUpdate(crc, payload, k, n) ==
    IF k > n THEN crc
    ELSE IF k = n
    THEN (CHOOSE the \in {
             Xor64(crc64Table[i], Shr8(crc))
           : i \in {XorByte(crc[8], payload[k])} } : TRUE)
    ELSE (CHOOSE the \in {
             crcUpdate(half, payload, ((k + n) \div 2) + 1, n)
           : half \in {crcUpdate(crc, payload, k, (k + n) \div 2)} } : TRUE)

\* getCRC: the two inversions around crc64.Update cancel Go's own
getCRC(crc, payload) ==
    (CHOOSE the \in {
        crcUpdate(c, b, 1, Len(b))
      : c \in {crc}, b \in {payload} } : TRUE)

(***************************************************************************)
(* buffer.go: memoryBackedBuffer.  A slice expression whose bounds are out *)
(* of range is a run-time panic.                                           *)
(***************************************************************************)
ErrUnexpectedEOF == "unexpected EOF"

ErrPanic == "panic: slice bounds out of range"

newMemoryBackedBuffer(buf) == [buf |-> buf, len |-> Len(buf), pos |-> 0]

\* pos + n on the int of the code, for a position pos and a byte count n as
\* IntOf gives it: the counts from 2^30 on stand for the ints whose distance
\* to 2^63 is 2^30 + 2^29 - n, so the sum overflows to a negative int
\* exactly when it reaches 2^30 + 2^29
IntSum(pos, n) == IF pos + n >= 1610612736 THEN -1 ELSE pos + n

\* Get returns the buffer after the call, the slice and the error.  The
\* slice is returned when n is not negative and b.pos + n, which then does
\* not overflow, is within the buffer; in every other case the check
\* b.len < b.pos + n of the code tells io.ErrUnexpectedEOF from the panic of
\* the slice expression that follows it
memoryBackedBuffer_Get(b, n) ==
    IF n >= 0 /\ b.pos + n <= b.len
    THEN [b |-> [b EXCEPT !.pos = b.pos + n],
          val |-> SubSeq(b.buf, b.pos + 1, b.pos + n), err |-> ""]
    ELSE [b |-> b, val |-> <<>>,
          err |-> IF b.len < IntSum(b.pos, n) THEN ErrUnexpectedEOF
                  ELSE ErrPanic]

(***************************************************************************)
(* buffer.go: crcCalculator and fileBackedBuffer.  osPos is the read       *)
(* offset of the *os.File; panicked records a run-time panic (a slice      *)
(* expression with a negative bound).  The field crc is held as crcOf, the *)
(* bytes it is the CRC-64 of: crc starts as 0, the CRC-64 of no byte, and  *)
(* getCRC(crc, b) of the CRC-64 of some bytes is the CRC-64 of those bytes *)
(* followed by b, because crc64.Update goes on from the crc it is given.   *)
(***************************************************************************)
\* limit is fileLen - crcLen and checkedLen is never advanced, so every
\* chunk is cut at fileLen - crcLen; panicked tells that the bound
\* limit - checkedLen of the slice expression is negative
crcCalculator_Update(c, b) ==
    IF c.doNotUpdate THEN c
    ELSE [c EXCEPT !.crcOf = @ \o SubSeq(b, 1, MinInt(Len(b),
                                  c.fileLen - crcLen - c.checkedLen)),
                   !.panicked = c.fileLen - crcLen < c.checkedLen]

crcCalculator_Crc(c) == getCRC(Zero64, c.crcOf)

newFileBackedBuffer(fileLen, cap) ==
    [fileLen |-> fileLen, filePos |-> 0, bufCap |-> cap, buf |-> <<>>,
     len |-> 0, pos |-> 0, osPos |-> 0, panicked |-> FALSE, err |-> "",
     crcCalc |-> [crcOf |-> <<>>, checkedLen |-> 0, fileLen |-> fileLen,
                  doNotUpdate |-> FALSE, panicked |-> FALSE]]

\* read moves the unread bytes to the front of a slice of max(bufCap, n)
\* bytes and fills it from the file; a full read updates the calculator.
\* The buffer returned holds in err the error of this call
fileBackedBuffer_read(b, file, n) ==
    (CHOOSE the \in {
    (CHOOSE the \in {
    (CHOOSE the \in {
        [b EXCEPT !.buf = SubSeq(@, b.pos + 1, b.len) \o chunk
                            \o Zeros(MaxInt(b.bufCap, n) - b.len + b.pos
                                       - Len(chunk)),
                  !.len = MaxInt(b.bufCap, n), !.pos = 0,
                  !.osPos = @ + Len(chunk), !.crcCalc = upd,
                  !.panicked = @ \/ upd.panicked,
                  !.err = IF Len(chunk) # readLen
                          THEN IF chunk = <<>> THEN "EOF"
                               ELSE "expected to read more bytes"
                          ELSE IF upd.panicked THEN ErrPanic ELSE ""]
      : upd \in {IF Len(chunk) = readLen
                 THEN crcCalculator_Update(b.crcCalc, chunk)
                 ELSE b.crcCalc} } : TRUE)
      : chunk \in {SubSeq(file, b.osPos + 1,
                          MinInt(b.osPos + readLen, Len(file)))} } : TRUE)
      : readLen \in {MinInt(MaxInt(b.bufCap, n), b.fileLen - b.filePos)
                       - b.len + b.pos} } : TRUE)

\* a negative n passes both guards and panics in the slice expression; so
\* does an n whose sums with filePos and pos overflow, and when only the sum
\* with filePos overflows read(n) panics in make
fileBackedBuffer_Get(b, file, n) ==
    IF b.fileLen < IntSum(b.filePos, n)
    THEN [b |-> b, val |-> <<>>, err |-> ErrUnexpectedEOF]
    ELSE IF n < 0 \/ IntSum(b.filePos, n) < 0
    THEN [b |-> [b EXCEPT !.panicked = TRUE], val |-> <<>>, err |-> ErrPanic]
    ELSE (CHOOSE the \in {
             IF l.err # "" THEN [b |-> l, val |-> <<>>, err |-> l.err]
             ELSE [b |-> [l EXCEPT !.pos = @ + n, !.filePos = @ + n],
                   val |-> SubSeq(l.buf, l.pos + 1, l.pos + n), err |-> ""]
           : l \in {IF b.len < b.pos + n
                    THEN fileBackedBuffer_read(b, file, n)
                    ELSE [b EXCEPT !.err = ""]} } : TRUE)

fileBackedBuffer_Pos(b) == b.filePos

fileBackedBuffer_Crc(b) == crcCalculator_Crc(b.crcCalc)

fileBackedBuffer_DoNotCalcCrc(b) == [b EXCEPT !.crcCalc.doNotUpdate = TRUE]

(***************************************************************************)
(* constants.go                                                            *)
(***************************************************************************)
Version == 12
TypeString == 0
TypeList == 1
TypeSet == 2
TypeHash == 4
TypeZset2 == 5
TypeModule2 == 7
TypeStreamListpacks == 15
TypeStreamListpacks2 == 19
TypeStreamListpacks3 == 21
TypeHashMetadata == 24

TypeZset == 3

TypeHashZipmap == 9

TypeListZiplist == 10

TypeZsetZiplist == 12

TypeHashZiplist == 13

TypeListQuicklist == 14

TypeHashListpack == 16

TypeZsetListpack == 17

TypeListQuicklist2 == 18

TypeSetListpack == 20

zipmapLenBig == 254

zipmapEnd == 255

ziplistEnd == 255

ziplistLenBig == 65535

ziplistPrevLenBig == 254

ziplistEnc6BitStrLen == 0

ziplistEnc14BitStrLen == 64

ziplistEnc32BitStrLen == 128

ziplistEncInt8 == 254

ziplistEncInt16 == 192

ziplistEncInt24 == 240

ziplistEncInt32 == 208

ziplistEncInt64 == 224

quicklist2NodePlain == 1

quicklist2NodePacked == 2

TypeSetIntset == 11

TypeHashListpackEx == 25

intsetEncInt16 == 2

intsetEncInt32 == 4

intsetEncInt64 == 8
typeOpCodeFunction2 == 245
typeOpCodeFunctionPreGA == 246
typeOpCodeModuleAux == 247
typeOpCodeIdle == 248
typeOpCodeFreq == 249
typeOpCodeAux == 250
typeOpCodeResizeDB == 251
typeOpCodeExpireTimeMS == 252
typeOpCodeExpireTime == 253
typeOpCodeSelectDB == 254
typeOpCodeEOF == 255
len6Bit == 0
len14Bit == 64
len32Or64Bit == 128
lenEncodedValue == 192
len32Bit == 128
len64Bit == 129
lenEncodingInt8 == 0
lenEncodingInt16 == 1
lenEncodingInt32 == 2
lenEncodingLZF == 3
listpackEnd == 255
listpackLenBig == 65535
listpackEncInt16 == 241
listpackEncInt24 == 242
listpackEncInt32 == 243
listpackEncInt64 == 244
listpackEnc6bitStrLen == 128
listpackEnc12bitStrLen == 224
listpackEnc32bitStrLen == 240
moduleOpCodeEOF == 0
moduleOpCodeSInt == 1
moduleOpCodeUInt == 2
moduleOpCodeFloat == 3
moduleOpCodeDouble == 4
moduleOpCodeString == 5
jsonModuleV0 == 0
jsonModuleV0NodeNull == 1
jsonModuleV0NodeString == 2
jsonModuleV0NodeNumber == 4
jsonModuleV0NodeInteger == 8
jsonModuleV0NodeBoolean == 16
jsonModuleV0NodeDict == 32
jsonModuleV0NodeArray == 64
jsonModuleV0NodeKeyVal == 128
jsonModuleV3 == 3
streamItemFlagDeleted == 1
streamItemFlagSameFields == 2

\* 5035677737576115200 = 0x45e25238df912c00
jsonModuleID == <<69, 226, 82, 56, 223, 145, 44, 0>>

EmptyModuleMarker == <<>>

\* "json"
JSONModuleMarker == <<106, 115, 111, 110>>

(***************************************************************************)
(* Conversions between uint64 words, Go ints and decimal strings.          *)
(***************************************************************************)
\* the stand-in of IntOf for the ints from 2^29 to maxAlloc = 2^48, the
\* largest size make([]byte, n) accepts on a 64-bit build
maxAllocInt == 536870912

\* int(x) for a uint64 x, as far as a byte count or a loop bound can tell:
\* exact below 2^29 and -1 for every negative int.  The ints from 2^29 on
\* are more than any buffer of the model holds.  Those up to 2^48 are
\* maxAllocInt and those above 2^48 are maxAllocInt + 1, but for the last
\* 2^29 of them: 2^63 - k, for k from 1 to 2^29, is 2^30 + 2^29 - k, so that
\* adding a position to it overflows where it does in the code (IntSum).
IntOf(x) ==
    IF x[1] >= 128 THEN -1
    ELSE IF x[1] = 0 /\ x[2] = 0 /\ x[3] = 0 /\ x[4] = 0 /\ x[5] < 32
    THEN x[5] * 16777216 + x[6] * 65536 + x[7] * 256 + x[8]
    ELSE IF x[1] = 127 /\ x[2] = 255 /\ x[3] = 255 /\ x[4] = 255 /\ x[5] >= 224
    THEN 1073741824 + (x[5] - 224) * 16777216 + x[6] * 65536 + x[7] * 256
           + x[8]
    ELSE IF x[1] = 0 /\ (x[2] = 0 \/ x = <<0, 1, 0, 0, 0, 0, 0, 0>>)
    THEN maxAllocInt
    ELSE maxAllocInt + 1

\* the signed value of a little-endian two's complement integer of 1, 2 or
\* 4 bytes
SignedLE(b) ==
    LET n == Len(b)
        top == IF b[n] >= 128 THEN b[n] - 256 ELSE b[n]
    IN  IF n = 1 THEN top
        ELSE IF n = 2 THEN top * 256 + b[1]
        ELSE IF n = 3 THEN top * 65536 + b[2] * 256 + b[1]
        ELSE top * 16777216 + b[3] * 65536 + b[2] * 256 + b[1]

RECURSIVE DigitsOfNat(_)
DigitsOfNat(n) ==
    IF n < 10 THEN <<48 + n>> ELSE DigitsOfNat(n \div 10) \o <<48 + (n % 10)>>

RECURSIVE DigitsOfNeg(_)
DigitsOfNeg(n) ==
    LET d == (10 - (n % 10)) % 10
        rest == (n + d) \div 10
    IN  IF rest = 0 THEN <<48 + d>> ELSE DigitsOfNeg(rest) \o <<48 + d>>

\* strconv.Itoa
Itoa(n) == IF n < 0 THEN <<45>> \o DigitsOfNeg(n) ELSE DigitsOfNat(n)

(***************************************************************************)
(* reader.go: the primitive reads of valueReader.  A reader is a record    *)
(* with its buffer and limits; every read returns the reader after the     *)
(* call together with the value and the error ("" for nil).                *)
(***************************************************************************)
\* kind is the dynamic type of buf: "memory" for a memoryBackedBuffer,
\* "file" for a fileBackedBuffer and "forwardOnly" for a forwardOnlyBuffer.
\* mapOrder is not a field of the code: it numbers the orders in which the
\* Go runtime walks the maps ranged over while this reader is in use, which
\* the language leaves open
newValueReader(bytes) ==
    [buf |-> newMemoryBackedBuffer(bytes), maxLz77StrLen |-> 0,
     kind |-> "memory", mapOrder |-> 0]

\* the reader over newFileBackedBuffer(file, fileLen, bufCap), for a file
\* whose read offset is osPos when the buffer is made.  The buffer holds
\* the bytes of the file it reads in the field file
newFileBackedReader(file, osPos, fileLen, bufCap) ==
    [newValueReader(<<>>) EXCEPT
       !.kind = "file",
       !.buf = [file |-> file]
                 @@ [newFileBackedBuffer(fileLen, bufCap)
                       EXCEPT !.osPos = osPos]]

\* the io.Reader of a forwardOnlyBuffer yields the bytes of buf, of which
\* pos are read.  atEnd is what its Read returns at the end of the bytes:
\* "EOF" is (0, io.EOF), "nil" is (0, nil), and "early" is io.EOF together
\* with the last bytes.  crc is held as crcOf, the bytes it is the CRC-64 of
newForwardOnlyBuffer(bytes, atEnd) ==
    [buf |-> bytes, len |-> Len(bytes), pos |-> 0, atEnd |-> atEnd,
     calcCRC |-> TRUE, crcOf |-> <<>>]

\* the reader over newForwardOnlyBuffer(r)
newForwardOnlyReader(bytes, atEnd) ==
    [newValueReader(bytes) EXCEPT !.kind = "forwardOnly",
                                  !.buf = newForwardOnlyBuffer(bytes, atEnd)]

\* forwardOnlyBuffer.Get.  make([]byte, n) panics for a negative n and
\* for an n above maxAlloc; it is taken to succeed for every other n.  A
\* Read that returns an error, or no byte, ends the loop with the bytes it
\* has read lost and the CRC as it was
forwardOnlyBuffer_Get(b, n) ==
    IF n < 0 \/ n > maxAllocInt
    THEN [b |-> b, val |-> <<>>, err |-> ErrPanic]
    ELSE IF b.pos + n <= b.len
            /\ ~(b.atEnd = "early" /\ n > 0 /\ b.pos + n = b.len)
    THEN (CHOOSE the \in {
             [b |-> [b EXCEPT !.pos = b.pos + n,
                              !.crcOf = IF b.calcCRC THEN @ \o val ELSE @],
              val |-> val, err |-> ""]
           : val \in {SubSeq(b.buf, b.pos + 1, b.pos + n)} } : TRUE)
    ELSE [b |-> [b EXCEPT !.pos = b.len], val |-> <<>>,
          err |-> IF b.atEnd = "nil" THEN ErrUnexpectedEOF ELSE "EOF"]

forwardOnlyBuffer_DoNotCalcCrc(b) == [b EXCEPT !.calcCRC = FALSE]

forwardOnlyBuffer_Crc(b) == getCRC(Zero64, b.crcOf)

\* buf.Pos() of the buffer of a reader; the forward-only buffer returns 0
Pos(r) ==
    IF r.kind = "file" THEN fileBackedBuffer_Pos(r.buf)
    ELSE IF r.kind = "forwardOnly" THEN 0
    ELSE r.buf.pos

\* the number of bytes the reader has taken from its buffer: where in the
\* input a callback is made
Consumed(r) == IF r.kind = "file" THEN r.buf.filePos ELSE r.buf.pos

\* buf.Get(n) of the buffer of a reader
read(r, n) ==
    (CHOOSE the \in {
        [r |-> [r EXCEPT !.buf = g.b], val |-> g.val, err |-> g.err]
      : g \in {IF r.kind = "forwardOnly" THEN forwardOnlyBuffer_Get(r.buf, n)
               ELSE IF r.kind = "file"
               THEN fileBackedBuffer_Get(r.buf, r.buf.file, n)
               ELSE memoryBackedBuffer_Get(r.buf, n)} } : TRUE)

skip(r, n) == read(r, n)

readUint8(r) ==
    (CHOOSE the \in {
        [r |-> g.r, err |-> g.err, val |-> IF g.err = "" THEN g.val[1] ELSE 0]
      : g \in {read(r, 1)} } : TRUE)

readUint16(r) ==
    (CHOOSE the \in {
        [r |-> g.r, err |-> g.err,
         val |-> IF g.err = "" THEN <<0, 0, 0, 0, 0, 0, g.val[2], g.val[1]>>
                 ELSE Zero64]
      : g \in {read(r, 2)} } : TRUE)

readUint32(r) ==
    (CHOOSE the \in {
        [r |-> g.r, err |-> g.err,
         val |-> IF g.err = ""
                 THEN <<0, 0, 0, 0, g.val[4], g.val[3], g.val[2], g.val[1]>>
                 ELSE Zero64]
      : g \in {read(r, 4)} } : TRUE)

readUint32BE(r) ==
    (CHOOSE the \in {
        [r |-> g.r, err |-> g.err,
         val |-> IF g.err = "" THEN <<0, 0, 0, 0>> \o g.val ELSE Zero64]
      : g \in {read(r, 4)} } : TRUE)

readUint64(r) ==
    (CHOOSE the \in {
        [r |-> g.r, err |-> g.err,
         val |-> IF g.err = "" THEN Swap64(g.val) ELSE Zero64]
      : g \in {read(r, 8)} } : TRUE)

readUint64BE(r) ==
    (CHOOSE the \in {
        [r |-> g.r, err |-> g.err,
         val |-> IF g.err = "" THEN g.val ELSE Zero64]
      : g \in {read(r, 8)} } : TRUE)

ReadType(r) == readUint8(r)

readLen(r) ==
    LET fail(rr, e) == [r |-> rr, err |-> e, val |-> Zero64, encoded |-> FALSE]
        ok(rr, v, enc) == [r |-> rr, err |-> "", val |-> v, encoded |-> enc]
    IN  (CHOOSE the \in {
            IF b0.err # "" THEN fail(b0.r, b0.err)
            ELSE
        (CHOOSE the \in {
            IF masked = len6Bit THEN ok(b0.r, U64(b0.val % 64), FALSE)
            ELSE IF masked = lenEncodedValue
            THEN ok(b0.r, U64(b0.val % 64), TRUE)
            ELSE IF masked = len32Or64Bit /\ b0.val # len32Bit
                    /\ b0.val # len64Bit
            THEN fail(b0.r, "unexpected length encoding")
            ELSE
        \* b1 of readUint8, or length of readUint32BE or of readUint64BE:
        \* the 1, 4 or 8 bytes of one Get, the most significant first
        (CHOOSE the \in {
            IF length.err # "" THEN fail(length.r, length.err)
            ELSE ok(length.r,
                    IF masked = len14Bit
                    THEN <<0, 0, 0, 0, 0, 0, b0.val % 64, length.val[1]>>
                    ELSE IF b0.val = len32Bit
                    THEN <<0, 0, 0, 0>> \o length.val
                    ELSE length.val,
                    FALSE)
          : length \in {read(b0.r, IF masked = len14Bit THEN 1
                                   ELSE IF b0.val = len32Bit THEN 4
                                   ELSE 8)} } : TRUE)
          : masked \in {(b0.val \div 64) * 64} } : TRUE)
          : b0 \in {readUint8(r)} } : TRUE)

(***************************************************************************)
(* lz77.go                                                                 *)
(***************************************************************************)
errCorruptContent == "corrupt compressed string content"

\* out[backRef], out[backRef+1], ... appended one byte at a time
RECURSIVE lz77CopyOverlap(_, _, _)
lz77CopyOverlap(out, backRef, matchLen) ==
    IF matchLen <= 0 THEN out
    ELSE lz77CopyOverlap(Append(out, out[backRef + 1]), backRef + 1,
                         matchLen - 1)

\* one turn of the loop: the instruction whose control byte is inp[inpIdx0];
\* the input index and the output after it, or the error it returns
lz77Step(inp, outLen, inpIdx0, out) ==
    LET inpLen == Len(inp)
        outIdx == Len(out)
        bad == [err |-> errCorruptContent, inpIdx |-> inpIdx0, out |-> out]
        ctrl == inp[inpIdx0 + 1]
        inpIdx == inpIdx0 + 1
    IN  IF ctrl < 32
        THEN LET run == ctrl + 1
             IN  IF inpLen < inpIdx + run THEN bad
                 ELSE IF outLen < outIdx + run THEN bad
                 ELSE [err |-> "", inpIdx |-> inpIdx + run,
                       out |-> out \o SubSeq(inp, inpIdx + 1, inpIdx + run)]
        ELSE LET matchLen0 == (ctrl \div 32) + 2
                 long == matchLen0 = 9
             IN  IF inpLen <= inpIdx THEN bad
                 ELSE IF long /\ inpLen <= inpIdx + 1 THEN bad
                 ELSE
                 LET matchLen == IF long THEN matchLen0 + inp[inpIdx + 1]
                                 ELSE matchLen0
                     idx2 == IF long THEN inpIdx + 1 ELSE inpIdx
                     backRef == outIdx - ((ctrl % 32) * 256) - 1
                                  - inp[idx2 + 1]
                 IN  IF outLen < outIdx + matchLen THEN bad
                     ELSE IF backRef < 0 THEN bad
                     ELSE IF backRef + matchLen < outIdx
                     THEN [err |-> "", inpIdx |-> idx2 + 1,
                           out |-> out \o SubSeq(out, backRef + 1,
                                                  backRef + matchLen)]
                     ELSE [err |-> "", inpIdx |-> idx2 + 1,
                           out |-> lz77CopyOverlap(out, backRef, matchLen)]

\* a return without the test of the produced length: C12_LZ77Decompression
\* does not hold of it
lz77Return_anyLength(outLen, out) == [err |-> "", val |-> out]

\* what is returned once the input is consumed
lz77Return(outLen, out) ==
    IF Len(out) # outLen THEN [err |-> errCorruptContent, val |-> <<>>]
    ELSE [err |-> "", val |-> out]

RECURSIVE lz77Loop(_, _, _, _)
lz77Loop(inp, outLen, inpIdx0, out) ==
    IF ~(inpIdx0 < Len(inp)) THEN lz77Return(outLen, out)
    ELSE (CHOOSE the \in {
             IF s.err # "" THEN [err |-> s.err, val |-> <<>>]
             ELSE lz77Loop(inp, outLen, s.inpIdx, s.out)
           : s \in {lz77Step(inp, outLen, inpIdx0, out)} } : TRUE)

decompressLZ77(inp, outLen) == lz77Loop(inp, outLen, 0, <<>>)

(***************************************************************************)
(* reader.go: strings.                                                     *)
(***************************************************************************)
errTooBigLz77String == "uncompressed length of the string is too big"

\* a < b on uint64
Less64(a, b) ==
    \E i \in 1..8 : a[i] < b[i] /\ \A j \in 1..(i - 1) : a[j] = b[j]

\* the signed comparison a < b of two ints held in words
LessInt64(a, b) ==
    IF (a[1] >= 128) # (b[1] >= 128) THEN a[1] >= 128 ELSE Less64(a, b)

ReadString(r) ==
    LET fail(rr, e) == [r |-> rr, err |-> e, val |-> <<>>]
        ok(rr, v) == [r |-> rr, err |-> "", val |-> v]
        int(g) == IF g.err # "" THEN fail(g.r, g.err)
                  ELSE ok(g.r, Itoa(SignedLE(g.val)))
    IN  (CHOOSE the \in {
            IF l.err # "" THEN fail(l.r, l.err)
            ELSE IF l.encoded
            THEN IF l.val = U64(lenEncodingInt8) THEN int(read(l.r, 1))
                 ELSE IF l.val = U64(lenEncodingInt16) THEN int(read(l.r, 2))
                 ELSE IF l.val = U64(lenEncodingInt32) THEN int(read(l.r, 4))
                 ELSE IF l.val = U64(lenEncodingLZF)
                 THEN (CHOOSE the \in {
                          IF c.err # "" THEN fail(c.r, c.err)
                          ELSE
                      (CHOOSE the \in {
                          IF u.err # "" THEN fail(u.r, u.err)
                          ELSE IF r.maxLz77StrLen > 0
                                  /\ Less64(U64(r.maxLz77StrLen), u.val)
                          THEN fail(u.r, errTooBigLz77String)
                          ELSE
                      (CHOOSE the \in {
                          IF data.err # "" THEN fail(data.r, data.err)
                          ELSE
                      (CHOOSE the \in {
                          IF d.err # "" THEN fail(data.r, d.err)
                          ELSE ok(data.r, d.val)
                        : d \in {decompressLZ77(data.val, IntOf(u.val))} } : TRUE)
                        : data \in {read(u.r, IntOf(c.val))} } : TRUE)
                        : u \in {readLen(c.r)} } : TRUE)
                        : c \in {readLen(l.r)} } : TRUE)
                 ELSE fail(l.r, "unexpected string encoding")
            ELSE (CHOOSE the \in {
                     IF data.err # "" THEN fail(data.r, data.err)
                     ELSE ok(data.r, data.val)
                   : data \in {read(l.r, IntOf(l.val))} } : TRUE)
          : l \in {readLen(r)} } : TRUE)

(***************************************************************************)
(* verify.go: the verifier, a handler that counts the bytes it is given    *)
(* and refuses what exceeds its limits.  A verifier is its limits, its     *)
(* dataSize, and the closures its factories returned last: cb for the      *)
(* elements of a collection or the entries of a stream, groupCb for the    *)
(* consumer groups of a stream.  A closure is the branch of the factory    *)
(* that made it (fn), the key it captured and its entrySize.               *)
(***************************************************************************)
defaultMaxDataSize == 268435456

defaultMaxEntrySize == 104857600

defaultMaxKeySize == 32768

defaultMaxStreamPELSize == 1000

\* math.MaxUint32, as a 64-bit word
maxStreamStrSize == <<0, 0, 0, 0, 255, 255, 255, 255>>

\* math.MaxInt where int has 32 bits; no size of the model comes near it
mathMaxInt == 2147483647

errMaxDataSizeExceeded(current, limit) ==
    "max data size is exceeded. current: " \o ToString(current)
        \o ", limit: " \o ToString(limit)

errMaxEntrySizeExceeded(current, limit) ==
    "max entry size is exceeded. current: " \o ToString(current)
        \o ", limit: " \o ToString(limit)

errMaxKeySizeExceeded(current, limit) ==
    "max key size is exceeded. current: " \o ToString(current)
        \o ", limit: " \o ToString(limit)

errMaxStreamPELSizeExceeded(current, limit) ==
    "max stream pel size is exceeded. current: " \o ToString(current)
        \o ", limit: " \o ToString(limit)

errMaxStreamStrSizeExceeded(current) ==
    "max stream string item size is exceeded. current: " \o ToString(current)
        \o ", limit: 4294967295"

\* VerifyFileOptions.maybeSetDefaults
maybeSetDefaults(o) ==
    [o EXCEPT
       !.MaxDataSize = IF o.MaxDataSize <= 0 THEN defaultMaxDataSize
                       ELSE o.MaxDataSize,
       !.MaxEntrySize = IF o.MaxEntrySize <= 0 THEN defaultMaxEntrySize
                        ELSE o.MaxEntrySize,
       !.MaxKeySize = IF o.MaxKeySize <= 0 THEN defaultMaxKeySize
                      ELSE o.MaxKeySize,
       !.MaxStreamPELSize = IF o.MaxStreamPELSize <= 0
                            THEN defaultMaxStreamPELSize
                            ELSE o.MaxStreamPELSize]

\* VerifyValueOptions.maybeSetDefaults
VerifyValueOptions_maybeSetDefaults(o) ==
    [o EXCEPT
       !.MaxEntrySize = IF o.MaxEntrySize <= 0 THEN defaultMaxEntrySize
                        ELSE o.MaxEntrySize,
       !.MaxStreamPELSize = IF o.MaxStreamPELSize <= 0
                            THEN defaultMaxStreamPELSize
                            ELSE o.MaxStreamPELSize]

NoClosure == [fn |-> "none", key |-> <<>>, entrySize |-> 0, kind |-> ""]

\* &verifier{...} from the options o
newVerifier(o) ==
    [maxDataSize |-> o.MaxDataSize, maxEntrySize |-> o.MaxEntrySize,
     maxKeySize |-> o.MaxKeySize, maxStreamPELSize |-> o.MaxStreamPELSize,
     allowPartialVerify |-> o.AllowPartialVerify,
     requireStrictEOF |-> o.RequireStrictEOF, dataSize |-> 0,
     cb |-> NoClosure, groupCb |-> NoClosure]

\* HandleString(key, value) and HandleModule(key, value, marker)
verifier_HandleString(v, key, value) ==
    IF Len(key) > v.maxKeySize
    THEN [v |-> v, err |-> errMaxKeySizeExceeded(Len(key), v.maxKeySize)]
    ELSE IF Len(value) > v.maxEntrySize
    THEN [v |-> v, err |-> errMaxEntrySizeExceeded(Len(value), v.maxEntrySize)]
    ELSE (CHOOSE the \in {
             [v |-> [v EXCEPT !.dataSize = dataSize],
              err |-> IF dataSize > v.maxDataSize
                      THEN errMaxDataSizeExceeded(dataSize, v.maxDataSize)
                      ELSE ""]
           : dataSize \in {v.dataSize + Len(key) + Len(value)} } : TRUE)

\* verifier_EntryHandler with an entrySize that outlives the record:
\* C16_EntrySizePerRecord does not hold of it
verifier_EntryHandler_carried(v, key, kind) ==
    IF Len(key) > v.maxKeySize
    THEN [v EXCEPT !.cb = [fn |-> "keyErr", key |-> key, entrySize |-> 0,
                           kind |-> kind]]
    ELSE [v EXCEPT !.dataSize = v.dataSize + Len(key),
                   !.cb = [fn |-> IF v.dataSize + Len(key) > v.maxDataSize
                                  THEN "dataErr" ELSE "entry",
                           key |-> key, entrySize |-> v.cb.entrySize,
                           kind |-> kind]]

\* the factories HashEntryHandler, HashWithExpEntryHandler, ListEntryHandler,
\* SetEntryHandler, ZsetEntryHandler and StreamEntryHandler: which closure
\* is returned for key.  No factory returns an error
verifier_EntryHandler(v, key, kind) ==
    IF Len(key) > v.maxKeySize
    THEN [v EXCEPT !.cb = [fn |-> "keyErr", key |-> key, entrySize |-> 0,
                           kind |-> kind]]
    ELSE (CHOOSE the \in {
             [v EXCEPT !.dataSize = dataSize,
                       !.cb = [fn |-> IF dataSize > v.maxDataSize
                                      THEN "dataErr" ELSE "entry",
                               key |-> key, entrySize |-> 0, kind |-> kind]]
           : dataSize \in {v.dataSize + Len(key)} } : TRUE)

\* elementSize of the closures of the collections
elementSize(kind, args) ==
    IF kind = "Hash" THEN Len(args[1]) + Len(args[2])
    ELSE IF kind = "HashWithExp" THEN Len(args[1]) + Len(args[2]) + 8
    ELSE IF kind = "Zset" THEN Len(args[1]) + 8
    ELSE Len(args[1])

\* the closure that a collection factory returned, called on one element
verifier_entry(v, args) ==
    IF v.cb.fn = "keyErr"
    THEN [v |-> v, err |-> errMaxKeySizeExceeded(Len(v.cb.key), v.maxKeySize)]
    ELSE IF v.cb.fn = "dataErr"
    THEN [v |-> v, err |-> errMaxDataSizeExceeded(v.dataSize, v.maxDataSize)]
    ELSE (CHOOSE the \in {
             IF entrySize > v.maxEntrySize
             THEN [v |-> [v EXCEPT !.cb.entrySize = entrySize],
                   err |-> errMaxEntrySizeExceeded(entrySize, v.maxEntrySize)]
             ELSE
         (CHOOSE the \in {
             [v |-> [v EXCEPT !.cb.entrySize = entrySize,
                              !.dataSize = dataSize],
              err |-> IF dataSize > v.maxDataSize
                      THEN errMaxDataSizeExceeded(dataSize, v.maxDataSize)
                      ELSE ""]
           : dataSize \in {v.dataSize + elementSize(v.cb.kind, args)} } : TRUE)
           : entrySize \in {v.cb.entrySize + elementSize(v.cb.kind, args)} } : TRUE)

RECURSIVE SumLen(_, _)
\* the lengths of values[i..] added up
SumLen(values, i) ==
    IF i > Len(values) THEN 0 ELSE Len(values[i]) + SumLen(values, i + 1)

TooLongItem(values) ==
    IF \E i \in DOMAIN values : Less64(maxStreamStrSize, U64(Len(values[i])))
    THEN Len(values[CHOOSE i \in DOMAIN values :
                 /\ Less64(maxStreamStrSize, U64(Len(values[i])))
                 /\ \A j \in 1..(i - 1) :
                        ~Less64(maxStreamStrSize, U64(Len(values[j])))])
    ELSE -1

\* the closure that StreamEntryHandler returned, called on one entry
verifier_streamEntry(v, entry) ==
    IF v.cb.fn = "keyErr"
    THEN [v |-> v, err |-> errMaxKeySizeExceeded(Len(v.cb.key), v.maxKeySize)]
    ELSE IF v.cb.fn = "dataErr"
    THEN [v |-> v, err |-> errMaxDataSizeExceeded(v.dataSize, v.maxDataSize)]
    ELSE IF TooLongItem(entry.Value) >= 0
    THEN [v |-> v, err |-> errMaxStreamStrSizeExceeded(TooLongItem(entry.Value))]
    ELSE (CHOOSE the \in {
             [v |-> [v EXCEPT !.dataSize = dataSize],
              err |-> IF dataSize > v.maxDataSize
                      THEN errMaxDataSizeExceeded(dataSize, v.maxDataSize)
                      ELSE ""]
           : dataSize \in {v.dataSize + SumLen(entry.Value, 1) + 16} } : TRUE)

\* StreamGroupHandler(key): var entrySize int, and the closure over it
verifier_StreamGroupHandler(v, key) ==
    [v EXCEPT !.groupCb = [fn |-> "group", key |-> key, entrySize |-> 0,
                           kind |-> "StreamGroup"]]

RECURSIVE pendingSize(_, _, _)
\* the loop over consumer.PendingEntries
pendingSize(pes, p, groupSize) ==
    IF p > Len(pes) THEN [err |-> "", val |-> groupSize]
    ELSE IF TooLongItem(pes[p].Entry.Value) >= 0
    THEN [err |-> errMaxStreamStrSizeExceeded(TooLongItem(pes[p].Entry.Value)),
          val |-> groupSize]
    ELSE pendingSize(pes, p + 1,
                     groupSize + 32 + SumLen(pes[p].Entry.Value, 1))

RECURSIVE consumersSize(_, _, _, _)
\* the loop over group.Consumers
consumersSize(v, consumers, c, groupSize) ==
    IF c > Len(consumers) THEN [err |-> "", val |-> groupSize]
    ELSE IF Less64(maxStreamStrSize, U64(Len(consumers[c].Name)))
    THEN [err |-> errMaxStreamStrSizeExceeded(Len(consumers[c].Name)),
          val |-> groupSize]
    ELSE IF Len(consumers[c].PendingEntries) > v.maxStreamPELSize
    THEN [err |-> errMaxStreamPELSizeExceeded(
                      Len(consumers[c].PendingEntries), v.maxStreamPELSize),
          val |-> groupSize]
    ELSE (CHOOSE the \in {
             IF pe.err # "" THEN pe
             ELSE consumersSize(v, consumers, c + 1, pe.val)
           : pe \in {pendingSize(consumers[c].PendingEntries, 1,
                                 groupSize + Len(consumers[c].Name) + 16)} } : TRUE)

\* the closure that StreamGroupHandler returned, called on one group
verifier_streamGroup(v, group) ==
    IF Less64(maxStreamStrSize, U64(Len(group.Name)))
    THEN [v |-> v, err |-> errMaxStreamStrSizeExceeded(Len(group.Name))]
    ELSE (CHOOSE the \in {
             IF g.err # "" THEN [v |-> v, err |-> g.err]
             ELSE
         (CHOOSE the \in {
             IF entrySize > v.maxEntrySize
             THEN [v |-> [v EXCEPT !.groupCb.entrySize = entrySize],
                   err |-> errMaxEntrySizeExceeded(entrySize, v.maxEntrySize)]
             ELSE
         (CHOOSE the \in {
             [v |-> [v EXCEPT !.groupCb.entrySize = entrySize,
                              !.dataSize = dataSize],
              err |-> IF dataSize > v.maxDataSize
                      THEN errMaxDataSizeExceeded(dataSize, v.maxDataSize)
                      ELSE ""]
           : dataSize \in {v.dataSize + g.val} } : TRUE)
           : entrySize \in {v.groupCb.entrySize + g.val} } : TRUE)
           : g \in {consumersSize(v, group.Consumers, 1,
                                  Len(group.Name) + 24)} } : TRUE)

\* the collection a factory or a closure belongs to
KindOf(name) ==
    IF name \in {"HashEntryHandler", "HashEntry"} THEN "Hash"
    ELSE IF name \in {"HashWithExpEntryHandler", "HashWithExpEntry"}
    THEN "HashWithExp"
    ELSE IF name \in {"ListEntryHandler", "ListEntry"} THEN "List"
    ELSE IF name \in {"SetEntryHandler", "SetEntry"} THEN "Set"
    ELSE IF name \in {"ZsetEntryHandler", "ZsetEntry"} THEN "Zset"
    ELSE "Stream"

\* one call of the reader on the verifier: name is the method or, for the
\* elements, the closure that is called
verifier_call(v, name, key, args, obj) ==
    IF name \in {"String", "Module"}
    THEN verifier_HandleString(v, key, args[1])
    ELSE IF name \in {"HashEntryHandler", "HashWithExpEntryHandler",
                      "ListEntryHandler", "SetEntryHandler",
                      "ZsetEntryHandler", "StreamEntryHandler"}
    THEN [v |-> verifier_EntryHandler(v, key, KindOf(name)), err |-> ""]
    ELSE IF name \in {"HashEntry", "HashWithExpEntry", "ListEntry",
                      "SetEntry", "ZsetEntry"}
    THEN verifier_entry(v, args)
    ELSE IF name = "StreamEntry" THEN verifier_streamEntry(v, obj)
    ELSE IF name = "StreamGroupHandler"
    THEN [v |-> verifier_StreamGroupHandler(v, key), err |-> ""]
    ELSE IF name = "StreamGroup" THEN verifier_streamGroup(v, obj)
    ELSE [v |-> v, err |-> ""]

(***************************************************************************)
(* handler.go: the state of a handler.  nop is nopHandler; otherwise the   *)
(* handler is the caller's, which allows partial reads when partial is     *)
(* set and whose failAt-th error-returning callback returns an error       *)
(* (failAt = 0: none does).  calls is the history of the callbacks made.   *)
(***************************************************************************)
ErrHandler == "handler error"

newHandler(partial, failAt) ==
    [nop |-> FALSE, partial |-> partial, failAt |-> failAt, fallible |-> 0,
     calls |-> <<>>]

AllowPartialRead(hs) == IF hs.nop THEN TRUE ELSE hs.partial

\* RequireStrictEOF of the handler the caller gave: the field of the
\* verifier; the other handlers of the model do not demand it
RequireStrictEOF(hs) ==
    IF "v" \in DOMAIN hs THEN hs.v.requireStrictEOF ELSE FALSE

\* a verifier as the handler of a reader
newVerifierHandler(v) ==
    [nop |-> FALSE, partial |-> v.allowPartialVerify, failAt |-> 0,
     fallible |-> 0, calls |-> <<>>, v |-> v]

\* one callback of the handler; canFail tells whether it returns an error,
\* at is the position of the buffer being decoded when the call is made
Invoke(hs, at, name, key, args, obj, canFail) ==
    IF "v" \in DOMAIN hs /\ ~hs.nop
    THEN (CHOOSE the \in {
             [hs |-> [hs EXCEPT
                        !.v = c.v,
                        !.calls = Append(hs.calls,
                                     [h |-> name, to |-> "caller",
                                      key |-> key, args |-> args,
                                      obj |-> obj, at |-> at])],
              err |-> c.err]
           : c \in {verifier_call(hs.v, name, key, args, obj)} } : TRUE)
    ELSE
    LET counted == canFail /\ ~hs.nop
        n == IF counted THEN hs.fallible + 1 ELSE hs.fallible
    IN  [hs |-> [hs EXCEPT
                    !.fallible = n,
                    !.calls = Append(hs.calls,
                                 [h |-> name,
                                  to |-> IF hs.nop THEN "nop" ELSE "caller",
                                  key |-> key, args |-> args, obj |-> obj,
                                  at |-> at])],
         err |-> IF counted /\ n = hs.failAt THEN ErrHandler ELSE ""]

(***************************************************************************)
(* reader.go: lists, sets, hashes and sorted sets.  Every reader returns   *)
(* the valueReader and the handler after the call.                         *)
(***************************************************************************)
RECURSIVE ReadListLoop(_, _, _, _, _, _)
ReadListLoop(r, hs, name, key, i, length) ==
    IF ~(i < length) THEN [r |-> r, hs |-> hs, err |-> ""]
    ELSE (CHOOSE the \in {
             IF elem.err # "" THEN [r |-> elem.r, hs |-> hs, err |-> elem.err]
             ELSE
         (CHOOSE the \in {
             IF c.err # "" THEN [r |-> elem.r, hs |-> c.hs, err |-> c.err]
             ELSE ReadListLoop(elem.r, c.hs, name, key, i + 1, length)
           : c \in {Invoke(hs, Consumed(elem.r), name, key, <<elem.val>>, <<>>, TRUE)} } : TRUE)
           : elem \in {ReadString(r)} } : TRUE)

ReadList(r, hs, key) ==
    (CHOOSE the \in {
        IF l.err # "" THEN [r |-> l.r, hs |-> hs, err |-> l.err, val |-> Zero64]
        ELSE
    (CHOOSE the \in {
        IF loop.err # ""
   THEN [r |-> loop.r, hs |-> loop.hs, err |-> loop.err, val |-> Zero64]
        ELSE [r |-> loop.r, hs |-> loop.hs, err |-> "", val |-> l.val]
      : loop \in {ReadListLoop(l.r, hs, "ListEntry", key, 0, IntOf(l.val))} } : TRUE)
      : l \in {readLen(r)} } : TRUE)

ReadSet(r, hs, key) ==
    (CHOOSE the \in {
        IF l.err # "" THEN [r |-> l.r, hs |-> hs, err |-> l.err]
        ELSE
    (CHOOSE the \in {
        loop
      : loop \in {ReadListLoop(l.r, hs, "SetEntry", key, 0, IntOf(l.val))} } : TRUE)
      : l \in {readLen(r)} } : TRUE)

RECURSIVE ReadHashLoop(_, _, _, _, _)
ReadHashLoop(r, hs, key, i, length) ==
    IF ~(i < length) THEN [r |-> r, hs |-> hs, err |-> ""]
    ELSE (CHOOSE the \in {
             IF field.err # ""
             THEN [r |-> field.r, hs |-> hs, err |-> field.err]
             ELSE
         (CHOOSE the \in {
             IF value.err # ""
        THEN [r |-> value.r, hs |-> hs, err |-> value.err]
             ELSE
         (CHOOSE the \in {
             IF c.err # ""
        THEN [r |-> value.r, hs |-> c.hs, err |-> c.err]
             ELSE ReadHashLoop(value.r, c.hs, key, i + 1, length)
           : c \in {Invoke(hs, Consumed(value.r), "HashEntry", key,
                           <<field.val, value.val>>, <<>>, TRUE)} } : TRUE)
           : value \in {ReadString(field.r)} } : TRUE)
           : field \in {ReadString(r)} } : TRUE)

ReadHash(r, hs, key) ==
    (CHOOSE the \in {
        IF l.err # "" THEN [r |-> l.r, hs |-> hs, err |-> l.err]
        ELSE ReadHashLoop(l.r, hs, key, 0, IntOf(l.val))
      : l \in {readLen(r)} } : TRUE)

\* the score is kept as the 64 bits that math.Float64frombits receives
RECURSIVE ReadZset2Loop(_, _, _, _, _)
ReadZset2Loop(r, hs, key, i, length) ==
    IF ~(i < length) THEN [r |-> r, hs |-> hs, err |-> ""]
    ELSE (CHOOSE the \in {
             IF elem.err # ""
             THEN [r |-> elem.r, hs |-> hs, err |-> elem.err]
             ELSE
         (CHOOSE the \in {
             IF bits.err # ""
        THEN [r |-> bits.r, hs |-> hs, err |-> bits.err]
             ELSE
         (CHOOSE the \in {
             IF c.err # ""
        THEN [r |-> bits.r, hs |-> c.hs, err |-> c.err]
             ELSE ReadZset2Loop(bits.r, c.hs, key, i + 1, length)
           : c \in {Invoke(hs, Consumed(bits.r), "ZsetEntry", key,
                           <<elem.val, bits.val>>, <<>>, TRUE)} } : TRUE)
           : bits \in {readUint64(elem.r)} } : TRUE)
           : elem \in {ReadString(r)} } : TRUE)

ReadZset2(r, hs, key) ==
    (CHOOSE the \in {
        IF l.err # "" THEN [r |-> l.r, hs |-> hs, err |-> l.err, val |-> Zero64]
        ELSE
    (CHOOSE the \in {
        IF loop.err # ""
   THEN [r |-> loop.r, hs |-> loop.hs, err |-> loop.err, val |-> Zero64]
        ELSE [r |-> loop.r, hs |-> loop.hs, err |-> "", val |-> l.val]
      : loop \in {ReadZset2Loop(l.r, hs, key, 0, IntOf(l.val))} } : TRUE)
      : l \in {readLen(r)} } : TRUE)

(***************************************************************************)
(* 64-bit arithmetic on words, as Go computes it (modulo 2^64).            *)
(***************************************************************************)
\* the bytes i..i+2 of a word as one number, and a number as n bytes
Limb3(a, i) == (a[i] * 256 + a[i + 1]) * 256 + a[i + 2]

Limb2(a, i) == a[i] * 256 + a[i + 1]

Bytes3(n) == <<(n \div 65536) % 256, (n \div 256) % 256, n % 256>>

Bytes2(n) == <<(n \div 256) % 256, n % 256>>

\* a + b and the bit carried out of the word, three bytes at a time
AddWithCarry(a, b) ==
    (CHOOSE the \in {
    (CHOOSE the \in {
    (CHOOSE the \in {
        [sum |-> Bytes2(hi) \o Bytes3(mid) \o Bytes3(lo),
         carry |-> hi \div 65536]
      : hi \in {Limb2(a, 1) + Limb2(b, 1) + mid \div 16777216} } : TRUE)
      : mid \in {Limb3(a, 3) + Limb3(b, 3) + lo \div 16777216} } : TRUE)
      : lo \in {Limb3(a, 6) + Limb3(b, 6)} } : TRUE)

\* a + b
Add64(a, b) == AddWithCarry(a, b).sum

Not64(a) ==
    <<255 - a[1], 255 - a[2], 255 - a[3], 255 - a[4], 255 - a[5],
      255 - a[6], 255 - a[7], 255 - a[8]>>

\* -a
Neg64(a) == Add64(Not64(a), U64(1))

\* a - b
Sub64(a, b) == Add64(a, Neg64(b))

\* a * k for 0 <= k <= 1000, with the bits shifted out of the word, two
\* bytes at a time
MulSmall(a, k) ==
    (CHOOSE the \in {
    (CHOOSE the \in {
    (CHOOSE the \in {
    (CHOOSE the \in {
        [prod |-> Bytes2(p3) \o Bytes2(p2) \o Bytes2(p1) \o Bytes2(p0),
         carry |-> p3 \div 65536]
      : p3 \in {Limb2(a, 1) * k + p2 \div 65536} } : TRUE)
      : p2 \in {Limb2(a, 3) * k + p1 \div 65536} } : TRUE)
      : p1 \in {Limb2(a, 5) * k + p0 \div 65536} } : TRUE)
      : p0 \in {Limb2(a, 7) * k} } : TRUE)

\* unsigned a / 10 and a % 10, three bytes at a time
DivMod10(a) ==
    (CHOOSE the \in {
    (CHOOSE the \in {
    (CHOOSE the \in {
        [quot |-> Bytes2(hi \div 10) \o Bytes3(mid \div 10)
                      \o Bytes3(lo \div 10),
         rem |-> lo % 10]
      : lo \in {(mid % 10) * 16777216 + Limb3(a, 6)} } : TRUE)
      : mid \in {(hi % 10) * 16777216 + Limb3(a, 3)} } : TRUE)
      : hi \in {Limb2(a, 1)} } : TRUE)

RECURSIVE UDigits(_)
UDigits(a) ==
    IF a = Zero64 THEN <<>>
    ELSE (CHOOSE the \in {
             UDigits(d.quot) \o <<48 + d.rem>>
           : d \in {DivMod10(a)} } : TRUE)

\* strconv.Itoa(int(x)) for the int64 held in x
Itoa64(x) ==
    IF x = Zero64 THEN <<48>>
    ELSE IF x[1] >= 128 THEN <<45>> \o UDigits(Neg64(x))
    ELSE UDigits(x)

\* the non-negative int64 n as a word
RECURSIVE AtoiLoop(_, _, _)
AtoiLoop(s, k, acc) ==
    IF k > Len(s) THEN [val |-> acc, over |-> FALSE]
    ELSE (CHOOSE the \in {
         (CHOOSE the \in {
             IF m.carry # 0 \/ a.carry # 0 THEN [val |-> acc, over |-> TRUE]
             ELSE AtoiLoop(s, k + 1, a.sum)
           : a \in {AddWithCarry(m.prod, U64(s[k] - 48))} } : TRUE)
           : m \in {MulSmall(acc, 10)} } : TRUE)

MinInt64 == <<128, 0, 0, 0, 0, 0, 0, 0>>

\* strconv.Atoi; the int result is the int64 held in val
Atoi64(s) ==
    LET neg == Len(s) > 0 /\ s[1] = 45
        plus == Len(s) > 0 /\ s[1] = 43
        digits == IF neg \/ plus THEN Tail(s) ELSE s
    IN  IF Len(digits) = 0 \/ \E k \in 1..Len(digits) :
                                   digits[k] < 48 \/ digits[k] > 57
        THEN [err |-> "strconv.Atoi: invalid syntax", val |-> Zero64]
        ELSE
        (CHOOSE the \in {
            IF m.over \/ (m.val[1] >= 128 /\ ~(neg /\ m.val = MinInt64))
       THEN [err |-> "strconv.Atoi: value out of range", val |-> Zero64]
            ELSE [err |-> "", val |-> IF neg THEN Neg64(m.val) ELSE m.val]
          : m \in {AtoiLoop(digits, 1, Zero64)} } : TRUE)

\* sign extension of a little-endian two's complement integer to int64
SignExtendLE(b) ==
    LET n == Len(b)
        fill == IF b[n] >= 128 THEN 255 ELSE 0
        be == [i \in 1..8 |-> IF i <= 8 - n THEN fill ELSE b[9 - i]]
    IN  <<be[1], be[2], be[3], be[4], be[5], be[6], be[7], be[8]>>

(***************************************************************************)
(* reader.go: ReadHashMetadata, the hash with an expiry for every field.   *)
(***************************************************************************)
\* exp is the zero time.Time (<<>>) when the wire value is 0, otherwise
\* time.UnixMilli(int64(minExpirationTs + expVal)), kept as the 64 bits of
\* its milliseconds
RECURSIVE ReadHashMetadataLoop(_, _, _, _, _, _)
ReadHashMetadataLoop(r, hs, key, minExpirationTs, i, length) ==
    IF ~(i < length) THEN [r |-> r, hs |-> hs, err |-> ""]
    ELSE LET \* the expiry, the field and the value of the turn
             triple ==
                 (CHOOSE the \in {
                     IF expVal.err # ""
                     THEN [r |-> expVal.r, err |-> expVal.err, args |-> <<>>]
                     ELSE
                 (CHOOSE the \in {
                     IF field.err # ""
                     THEN [r |-> field.r, err |-> field.err, args |-> <<>>]
                     ELSE
                 (CHOOSE the \in {
                     [r |-> value.r, err |-> value.err,
                      args |-> <<field.val, value.val,
                                 IF Less64(Zero64, expVal.val)
                                 THEN Add64(minExpirationTs, expVal.val)
                                 ELSE <<>>>>]
                   : value \in {ReadString(field.r)} } : TRUE)
                   : field \in {ReadString(expVal.r)} } : TRUE)
                   : expVal \in {readLen(r)} } : TRUE)
         IN  (CHOOSE the \in {
                 IF t.err # "" THEN [r |-> t.r, hs |-> hs, err |-> t.err]
                 ELSE
             (CHOOSE the \in {
                 IF c.err # "" THEN [r |-> t.r, hs |-> c.hs, err |-> c.err]
                 ELSE ReadHashMetadataLoop(t.r, c.hs, key, minExpirationTs,
                                           i + 1, length)
               : c \in {Invoke(hs, Consumed(t.r), "HashWithExpEntry", key,
                               t.args, <<>>, TRUE)} } : TRUE)
               : t \in {triple} } : TRUE)

ReadHashMetadata(r, hs, key) ==
    (CHOOSE the \in {
        IF minExpirationTs.err # ""
        THEN [r |-> minExpirationTs.r, hs |-> hs,
              err |-> minExpirationTs.err]
        ELSE
    (CHOOSE the \in {
        IF l.err # "" THEN [r |-> l.r, hs |-> hs, err |-> l.err]
        ELSE ReadHashMetadataLoop(l.r, hs, key, minExpirationTs.val, 0,
                                  IntOf(l.val))
      : l \in {readLen(minExpirationTs.r)} } : TRUE)
      : minExpirationTs \in {readUint64(r)} } : TRUE)

(***************************************************************************)
(* reader.go: readListpackEntry.                                           *)
(***************************************************************************)
errLPUnexpectedEnd == "unexpected end of listpack"

readListpackEntry(r) ==
    LET fail(rr, msg) == [r |-> rr, err |-> msg, val |-> <<>>]
        \* return "", nil: the error of the read is dropped
        dropped(rr) == [r |-> rr, err |-> "", val |-> <<>>]
    IN  (CHOOSE the \in {
            IF e.err # "" THEN fail(e.r, e.err)
            ELSE IF e.val = listpackEnd THEN fail(e.r, errLPUnexpectedEnd)
            ELSE
        (CHOOSE the \in {
            IF int.ret THEN [r |-> int.r, err |-> int.err, val |-> <<>>]
            ELSE IF int.entry # <<>>
            THEN (CHOOSE the \in {
                     IF s.err # "" THEN fail(s.r, s.err)
                     ELSE [r |-> s.r, err |-> "", val |-> int.entry]
                   : s \in {skip(int.r, 1)} } : TRUE)
            ELSE
        (CHOOSE the \in {
            IF str.ret THEN [r |-> str.r, err |-> str.err, val |-> <<>>]
            ELSE
        (CHOOSE the \in {
            IF data.err # "" THEN dropped(data.r)
            ELSE
        (CHOOSE the \in {
            IF s.err # "" THEN fail(s.r, s.err)
            ELSE [r |-> s.r, err |-> "", val |-> data.val]
          : s \in {skip(data.r, IF str.backLen <= 127 THEN 1
                                ELSE IF str.backLen < 16383 THEN 2
                                ELSE IF str.backLen < 2097151 THEN 3
                                ELSE IF str.backLen < 268435455 THEN 4
                                ELSE 5)} } : TRUE)
          : data \in {read(str.r, str.valueLen)} } : TRUE)
          : str \in {LET encoding == e.val
                         len(rr, valueLen, header) ==
                             [r |-> rr, ret |-> FALSE, err |-> "",
                              valueLen |-> valueLen,
                              backLen |-> header + valueLen]
                         return(rr, msg) ==
                             [r |-> rr, ret |-> TRUE, err |-> msg,
                              valueLen |-> 0, backLen |-> 0]
                     IN  IF (encoding \div 64) * 64 = listpackEnc6bitStrLen
                         THEN len(int.r, encoding % 64, 1)
                         ELSE IF (encoding \div 16) * 16 = listpackEnc12bitStrLen
                         THEN (CHOOSE the \in {
                                  IF valueLenLsb.err # ""
                                  THEN return(valueLenLsb.r, "")
                                  ELSE len(valueLenLsb.r,
                                           (encoding % 16) * 256
                                             + valueLenLsb.val, 2)
                                : valueLenLsb \in {readUint8(int.r)} } : TRUE)
                         ELSE IF encoding = listpackEnc32bitStrLen
                         THEN (CHOOSE the \in {
                                  IF valueLen0.err # ""
                                  THEN return(valueLen0.r, "")
                                  ELSE len(valueLen0.r, IntOf(valueLen0.val), 5)
                                : valueLen0 \in {readUint32(int.r)} } : TRUE)
                         ELSE return(int.r, "unexpected listpack encoding")}
          } : TRUE)
          : int \in {LET encoding == e.val
                         entry(g, val) ==
                             [r |-> g.r, ret |-> g.err # "", err |-> g.err,
                              entry |-> IF g.err # "" THEN <<>> ELSE val]
                     IN  IF encoding < 128
                         THEN [r |-> e.r, ret |-> FALSE, err |-> "",
                               entry |-> Itoa(encoding)]
                         ELSE IF (encoding \div 32) * 32 = 192
                         THEN (CHOOSE the \in {
                                  entry(valueLsb,
                                        LET value == (encoding % 32) * 256
                                                       + valueLsb.val
                                        IN  Itoa(IF value >= 4096
                                                 THEN value - 8192
                                                 ELSE value))
                                : valueLsb \in {readUint8(e.r)} } : TRUE)
                         ELSE IF encoding = listpackEncInt16
                         THEN (CHOOSE the \in {
                                  entry(g, Itoa(SignedLE(g.val)))
                                : g \in {read(e.r, 2)} } : TRUE)
                         ELSE IF encoding = listpackEncInt24
                         THEN (CHOOSE the \in {
                                  [entry(g, Itoa(SignedLE(g.val)))
                                     EXCEPT !.err = ""]
                                : g \in {read(e.r, 3)} } : TRUE)
                         ELSE IF encoding = listpackEncInt32
                         THEN (CHOOSE the \in {
                                  entry(g, Itoa(SignedLE(g.val)))
                                : g \in {read(e.r, 4)} } : TRUE)
                         ELSE IF encoding = listpackEncInt64
                         THEN (CHOOSE the \in {
                                  entry(g, Itoa64(g.val))
                                : g \in {readUint64(e.r)} } : TRUE)
                         ELSE [r |-> e.r, ret |-> FALSE, err |-> "",
                               entry |-> <<>>]} } : TRUE)
          : e \in {readUint8(r)} } : TRUE)

(***************************************************************************)
(* reader.go: the containers kept in one string: zipmap, ziplist and       *)
(* listpack, and the quicklists made of them.  The container is read by a  *)
(* valueReader of its own over the bytes of the string; at is where the    *)
(* reader of the value stands, after the string.                           *)
(***************************************************************************)
errZMUnexpectedEnd == "unexpected end of zipmap"

errZLUnexpectedEnd == "unexpected end of ziplist"

errParseFloat == "strconv.ParseFloat: invalid syntax"

errParseFloatRange == "strconv.ParseFloat: value out of range"

\* math.Inf(-1), math.Inf(1) and math.NaN() as math.Float64bits gives them
negInfBits == <<255, 240, 0, 0, 0, 0, 0, 0>>

posInfBits == <<127, 240, 0, 0, 0, 0, 0, 0>>

nanBits == <<127, 248, 0, 0, 0, 0, 0, 1>>

\* how many binary digits n has
BitLen(n) ==
    IF n >= 1073741824 THEN 31
    ELSE CHOOSE w \in 0..30 : n < 2 ^ w /\ (w = 0 \/ n >= 2 ^ (w - 1))

\* the binary digits of n, the first one a 1
BitsOfNat(n) ==
    IF n = 0 THEN <<>>
    ELSE (CHOOSE the \in {
             <<>> \o [k \in 1..w |-> (n \div (2 ^ (w - k))) % 2]
           : w \in {BitLen(n)} } : TRUE)

ByteOfBits(b, i) ==
    ((128 * b[i] + 64 * b[i + 1]) + (32 * b[i + 2] + 16 * b[i + 3]))
      + ((8 * b[i + 4] + 4 * b[i + 5]) + (2 * b[i + 6] + b[i + 7]))

(***************************************************************************)
(* strconv computes with numbers of any size: here they are the sequences  *)
(* of their digits to the base 32768, the most significant first; <<>> is  *)
(* 0.  A carry or a borrow into a digit comes from the first digit after   *)
(* it that does not pass one on.                                           *)
(***************************************************************************)
ZeroDigits(n) == IF n > 0 THEN <<>> \o [j \in 1..n |-> 0] ELSE <<>>

BigBitLen(x) ==
    IF Len(x) = 0 THEN 0 ELSE 15 * (Len(x) - 1) + Len(BitsOfNat(x[1]))

\* the first index after j at which t is not v, or 0
BigFirstNot(t, j, v) ==
    IF \A k \in (j + 1)..Len(t) : t[k] = v THEN 0
    ELSE CHOOSE k \in (j + 1)..Len(t) :
             t[k] # v /\ \A m \in (j + 1)..(k - 1) : t[m] = v

\* the digits of the number whose digit j is s[j] < 65536
BigCarry(s) ==
    (CHOOSE the \in {
        IF Len(r) > 0 /\ r[1] = 0 THEN Tail(r) ELSE r
      : r \in {<<>> \o [j \in 1..Len(s) |->
                   (s[j] + (IF (CHOOSE the \in { k # 0 /\ s[k] >= 32768
                                   : k \in {BigFirstNot(s, j, 32767)} } : TRUE)
                            THEN 1 ELSE 0)) % 32768]} } : TRUE)

\* x * c + a for c <= 32768 and a < 32768
BigMulAdd(x, c, a) ==
    IF Len(x) = 0 THEN (IF a = 0 THEN <<>> ELSE <<a>>)
    ELSE
    (CHOOSE the \in {
        BigCarry(<<>> \o [j \in 1..(Len(x) + 1) |->
                     (IF j > 1 THEN p[j - 1] % 32768 ELSE 0)
                         + (IF j <= Len(x) THEN p[j] \div 32768 ELSE 0)])
      : p \in {<<>> \o [j \in 1..Len(x) |->
                   x[j] * c + (IF j = Len(x) THEN a ELSE 0)]} } : TRUE)

\* x * 2^s for x > 0
BigShl(x, s) == BigMulAdd(x, 2 ^ (s % 15), 0) \o ZeroDigits(s \div 15)

\* x * 5^k for k <= 48, six factors at a time
RECURSIVE BigPow5Run(_, _)
BigPow5Run(x, k) ==
    IF k = 0 THEN x
    ELSE IF k >= 6 THEN BigPow5Run(BigMulAdd(x, 15625, 0), k - 6)
    ELSE BigPow5Run(BigMulAdd(x, 5, 0), k - 1)

\* x * 5^k
RECURSIVE BigPow5(_, _)
BigPow5(x, k) ==
    IF k <= 48 THEN BigPow5Run(x, k)
    ELSE (CHOOSE the \in { BigPow5(y, k - 48) : y \in {BigPow5Run(x, 48)} } : TRUE)

\* x followed by the digits to the base 10 or 16 from index k to n, three
\* of them at a time
RECURSIVE BigOfDigitsRun(_, _, _, _, _)
BigOfDigitsRun(digits, k, n, base, x) ==
    IF k > n THEN x
    ELSE IF k + 2 <= n
    THEN BigOfDigitsRun(digits, k + 3, n, base,
                        BigMulAdd(x, base * base * base,
                                  (digits[k] * base + digits[k + 1]) * base
                                      + digits[k + 2]))
    ELSE BigOfDigitsRun(digits, k + 1, n, base,
                        BigMulAdd(x, base, digits[k]))

\* x followed by the digits from index k on
RECURSIVE BigOfDigits(_, _, _, _)
BigOfDigits(digits, k, base, x) ==
    IF k + 47 >= Len(digits)
    THEN BigOfDigitsRun(digits, k, Len(digits), base, x)
    ELSE (CHOOSE the \in {
             BigOfDigits(digits, k + 48, base, y)
           : y \in {BigOfDigitsRun(digits, k, k + 47, base, x)} } : TRUE)

\* x < y for x and y of one length
BigLess(x, y) ==
    (CHOOSE the \in {
    (CHOOSE the \in {
        k # 0 /\ t[k] < 0
      : k \in {BigFirstNot(t, 0, 0)} } : TRUE)
      : t \in {<<>> \o [j \in 1..Len(x) |-> x[j] - y[j]]} } : TRUE)

\* x - y for x >= y of one length, in that length
BigSub(x, y) ==
    (CHOOSE the \in {
        <<>> \o [j \in 1..Len(x) |->
                    (t[j] + 32768
                        - (IF (CHOOSE the \in { k # 0 /\ t[k] < 0
                                  : k \in {BigFirstNot(t, j, 0)} } : TRUE)
                           THEN 1 ELSE 0)) % 32768]
      : t \in {<<>> \o [j \in 1..Len(x) |-> x[j] - y[j]]} } : TRUE)

\* 2 * x for x whose first digit is 0, in the length of x
BigDouble(x) ==
    <<>> \o [j \in 1..Len(x) |->
                ((2 * x[j]) % 32768)
                    + (IF j < Len(x) /\ x[j + 1] >= 16384 THEN 1 ELSE 0)]

BigIsZero(x) == \A k \in 1..Len(x) : x[k] = 0

\* n and d > 0 with the shorter one doubled until both have as many binary
\* digits, so that 1/2 < n / d < 2, and with a zero digit before them; k
\* is how many binary digits n had more than d
BigAlign(n, d) ==
    (CHOOSE the \in {
        [n |-> <<0>> \o (IF k < 0 THEN BigShl(n, 0 - k) ELSE n),
         d |-> <<0>> \o (IF k > 0 THEN BigShl(d, k) ELSE d),
         k |-> k]
      : k \in {BigBitLen(n) - BigBitLen(d)} } : TRUE)

\* the next k binary digits of r / d after out, for r < d, and what remains,
\* one half of the digits after the other
RECURSIVE BigDiv(_, _, _, _)
BigDiv(r, d, k, out) ==
    IF k <= 0 THEN [bits |-> out, r |-> r]
    ELSE IF k = 1
    THEN (CHOOSE the \in {
             IF BigLess(t, d) THEN [bits |-> Append(out, 0), r |-> t]
             ELSE [bits |-> Append(out, 1), r |-> BigSub(t, d)]
           : t \in {BigDouble(r)} } : TRUE)
    ELSE (CHOOSE the \in {
             BigDiv(c.r, d, k - (k \div 2), c.bits)
           : c \in {BigDiv(r, d, k \div 2, out)} } : TRUE)

\* math.Float64bits of the float64 nearest to n / d * 2^a, ties to even,
\* with the sign bit neg, for n > 0 and d > 0; a number too large is the
\* infinity with the range error, one too small is zero.  e is the
\* exponent of the first binary digit of the number; a normal float keeps
\* 53 digits, a subnormal one those down to 2^-1074, and one more digit
\* and the remainder decide the rounding, which may carry into the
\* exponent
Float64bitsOfRatio(neg, n, d, a) ==
    LET sign == IF neg THEN 128 ELSE 0
        inf == [err |-> errParseFloatRange,
                val |-> IF neg THEN negInfBits ELSE posInfBits]
    IN
    (CHOOSE the \in {
    (CHOOSE the \in {
    (CHOOSE the \in {
    (CHOOSE the \in {
        IF e > 1023 THEN inf
        ELSE IF steps < 0
        THEN [err |-> "", val |-> <<sign, 0, 0, 0, 0, 0, 0, 0>>]
        ELSE
    (CHOOSE the \in {
    (CHOOSE the \in {
    (CHOOSE the \in {
    (CHOOSE the \in {
        IF word[1] = 127 /\ word[2] >= 240 THEN inf
        ELSE [err |-> "", val |-> [word EXCEPT ![1] = @ + sign]]
      : word \in {IF q.bits[steps + 1] = 1
                     /\ (~BigIsZero(q.r)
                           \/ (steps > 0 /\ q.bits[steps] = 1))
                  THEN Add64(kept, U64(1)) ELSE kept} } : TRUE)
      : kept \in {[j \in 1..8 |-> ByteOfBits(bits, 8 * j - 7)]} } : TRUE)
      : bits \in {IF steps = 53
                  THEN <<0>> \o SubSeq(BitsOfNat(2048 + e + 1023), 2, 12)
                           \o SubSeq(q.bits, 2, 53)
                  ELSE ZeroDigits(64 - steps)
                           \o SubSeq(q.bits, 1, steps)} } : TRUE)
      : q \in {BigDiv(BigSub(IF first THEN al.n ELSE BigDouble(al.n),
                             al.d),
                      al.d, steps, <<1>>)} } : TRUE)
      : steps \in {IF e >= -1022 THEN 53 ELSE e + 1075} } : TRUE)
      : e \in {al.k + a - (IF first THEN 0 ELSE 1)} } : TRUE)
      : first \in {~BigLess(al.n, al.d)} } : TRUE)
      : al \in {BigAlign(n, d)} } : TRUE)

\* the floatBits of strconv's decimal: the float of 0.digits * 10^dp for
\* digits 0..9 that do not start with 0
decimal_floatBits(neg, digits, dp) ==
    IF dp > 310
    THEN [err |-> errParseFloatRange,
          val |-> IF neg THEN negInfBits ELSE posInfBits]
    ELSE IF dp < -330
    THEN [err |-> "", val |-> <<IF neg THEN 128 ELSE 0, 0, 0, 0, 0, 0, 0, 0>>]
    ELSE (CHOOSE the \in {
             IF dp >= Len(digits)
             THEN Float64bitsOfRatio(neg, BigPow5(n, dp - Len(digits)),
                                     <<1>>, dp - Len(digits))
             ELSE Float64bitsOfRatio(neg, n,
                                     BigPow5(<<1>>, Len(digits) - dp),
                                     dp - Len(digits))
           : n \in {BigOfDigits(digits, 1, 10, <<>>)} } : TRUE)

\* atofHex of strconv: the float of digits * 2^exp for hexadecimal digits
\* that do not start with 0
atofHex(neg, digits, exp) ==
    Float64bitsOfRatio(neg, BigOfDigits(digits, 1, 16, <<>>), <<1>>, exp)

\* c | ('x' - 'X')
lower(c) == IF (c \div 32) % 2 = 0 THEN c + 32 ELSE c

\* s in lower case
LowerCase(s) == [k \in 1..Len(s) |-> IF s[k] \in 65..90 THEN s[k] + 32 ELSE s[k]]

\* the loop of readFloat over the digits, the underscores and the point,
\* for at most n characters: st.i is the index of the next character,
\* st.digits are the digits from the first that is not 0 on, st.nd of them,
\* st.dp is where the point stands among them, and st.done that the loop
\* has ended
RECURSIVE readFloatDigitsRun(_, _, _, _)
readFloatDigitsRun(s, base, st, n) ==
    IF st.i > Len(s) THEN [st EXCEPT !.done = TRUE]
    ELSE IF n = 0 THEN st
    ELSE
    LET c == s[st.i]
    IN  IF c = 95
        THEN readFloatDigitsRun(s, base,
                                [st EXCEPT !.i = @ + 1, !.underscores = TRUE],
                                n - 1)
        ELSE IF c = 46
        THEN IF st.sawdot THEN [st EXCEPT !.done = TRUE]
             ELSE readFloatDigitsRun(s, base,
                                     [st EXCEPT !.i = @ + 1, !.sawdot = TRUE,
                                                !.dp = st.nd],
                                     n - 1)
        ELSE IF c \in 48..57
        THEN IF c = 48 /\ st.nd = 0
             THEN readFloatDigitsRun(s, base,
                                     [st EXCEPT !.i = @ + 1,
                                                !.sawdigits = TRUE,
                                                !.dp = @ - 1],
                                     n - 1)
             ELSE readFloatDigitsRun(s, base,
                                     [st EXCEPT !.i = @ + 1,
                                                !.sawdigits = TRUE,
                                                !.nd = @ + 1,
                                                !.digits = Append(@, c - 48)],
                                     n - 1)
        ELSE IF base = 16 /\ lower(c) \in 97..102
        THEN readFloatDigitsRun(s, base,
                                [st EXCEPT !.i = @ + 1, !.sawdigits = TRUE,
                                           !.nd = @ + 1,
                                           !.digits =
                                               Append(@, lower(c) - 87)],
                                n - 1)
        ELSE [st EXCEPT !.done = TRUE]

\* the whole loop, 32 characters at a time
RECURSIVE readFloatDigits(_, _, _)
readFloatDigits(s, base, st) ==
    (CHOOSE the \in {
        IF x.done THEN x ELSE readFloatDigits(s, base, x)
      : x \in {readFloatDigitsRun(s, base, st, 32)} } : TRUE)

\* the digits of the exponent from index i on: the exponent stops growing
\* at 10000
RECURSIVE readFloatExp(_, _, _, _)
readFloatExp(s, i, e, underscores) ==
    IF i <= Len(s) /\ s[i] = 95 THEN readFloatExp(s, i + 1, e, TRUE)
    ELSE IF i <= Len(s) /\ s[i] \in 48..57
    THEN readFloatExp(s, i + 1, IF e < 10000 THEN e * 10 + s[i] - 48 ELSE e,
                      underscores)
    ELSE [i |-> i, e |-> e, underscores |-> underscores]

\* underscoreOK of strconv: every underscore stands between two digits, the
\* base prefix counting as a digit
RECURSIVE underscoreOKFrom(_, _, _, _)
underscoreOKFrom(s, j, hex, last) ==
    IF j > Len(s) THEN last # "_"
    ELSE IF s[j] \in 48..57 \/ (hex /\ lower(s[j]) \in 97..102)
    THEN underscoreOKFrom(s, j + 1, hex, "0")
    ELSE IF s[j] = 95
    THEN last = "0" /\ underscoreOKFrom(s, j + 1, hex, "_")
    ELSE last # "_" /\ underscoreOKFrom(s, j + 1, hex, "!")

underscoreOK(s) ==
    (CHOOSE the \in {
    (CHOOSE the \in {
        underscoreOKFrom(IF prefix THEN SubSeq(t, 3, Len(t)) ELSE t, 1,
                         prefix /\ lower(t[2]) = 120,
                         IF prefix THEN "0" ELSE "^")
      : prefix \in {Len(t) >= 2 /\ t[1] = 48
                      /\ lower(t[2]) \in {98, 111, 120}} } : TRUE)
      : t \in {IF Len(s) >= 1 /\ s[1] \in {43, 45} THEN Tail(s) ELSE s} } : TRUE)

\* readFloat of strconv: the sign, the digits and the exponent of the
\* number s starts with, and the index i after it.  The code keeps the
\* first 19 digits (16 hexadecimal ones) and whether others follow, which
\* is enough for the nearest float; here all the digits are kept.  The
\* number is digits * 10^(dp - nd), and digits * 2^(dp - 4 * nd) when hex
readFloat(s) ==
    LET fail == [ok |-> FALSE, i |-> 1, neg |-> FALSE, hex |-> FALSE,
                 digits |-> <<>>, dp |-> 0]
    IN
    IF Len(s) = 0 THEN fail
    ELSE
    (CHOOSE the \in {
    (CHOOSE the \in {
    (CHOOSE the \in {
        IF ~m.sawdigits THEN fail
        ELSE
    (CHOOSE the \in {
        IF ~x.ok THEN fail
        ELSE IF x.underscores /\ ~underscoreOK(SubSeq(s, 1, x.i - 1))
        THEN fail
        ELSE [ok |-> TRUE, i |-> x.i, neg |-> s[1] = 45, hex |-> hex,
              digits |-> m.digits, dp |-> x.dp]
      : x \in {IF m.i <= Len(s)
                  /\ lower(s[m.i]) = (IF hex THEN 112 ELSE 101)
               THEN IF m.i + 1 > Len(s)
                    THEN [ok |-> FALSE]
                    ELSE
                    (CHOOSE the \in {
                        IF j > Len(s) \/ s[j] \notin 48..57
                        THEN [ok |-> FALSE]
                        ELSE
                    (CHOOSE the \in {
                        [ok |-> TRUE, i |-> e.i,
                         underscores |-> e.underscores,
                         dp |-> IF s[j - 1] = 45 THEN dp - e.e
                                ELSE dp + e.e]
                      : e \in {readFloatExp(s, j, 0, m.underscores)} } : TRUE)
                      : j \in {IF s[m.i + 1] \in {43, 45} THEN m.i + 2
                               ELSE m.i + 1} } : TRUE)
               ELSE IF hex THEN [ok |-> FALSE]
               ELSE [ok |-> TRUE, i |-> m.i, underscores |-> m.underscores,
                     dp |-> dp]} } : TRUE)
      : dp \in {(IF m.sawdot THEN m.dp ELSE m.nd) * (IF hex THEN 4 ELSE 1)} } : TRUE)
      : m \in {readFloatDigits(s, IF hex THEN 16 ELSE 10,
                               [i |-> IF hex THEN i0 + 2 ELSE i0,
                                sawdot |-> FALSE, sawdigits |-> FALSE,
                                nd |-> 0, dp |-> 0, digits |-> <<>>,
                                underscores |-> FALSE, done |-> FALSE])} } : TRUE)
      : i0 \in {IF s[1] \in {43, 45} THEN 2 ELSE 1},
        hex \in {(CHOOSE the \in { i + 1 < Len(s) /\ s[i] = 48 /\ lower(s[i + 1]) = 120
                     : i \in {IF s[1] \in {43, 45} THEN 2 ELSE 1} } : TRUE)} } : TRUE)

\* strconv.ParseFloat(s, 64); val is math.Float64bits of the result.
\* special of strconv takes "inf", "infinity" and "nan" in any case, the
\* first two with a sign; any other s must be a number all of which
\* readFloat takes, and the result is the float nearest to it
ParseFloat(s) ==
    (CHOOSE the \in {
    (CHOOSE the \in {
        IF low \in {<<105, 110, 102>>,
                    <<105, 110, 102, 105, 110, 105, 116, 121>>}
        THEN [err |-> "", val |-> IF sg.neg THEN negInfBits ELSE posInfBits]
        ELSE IF ~sg.signed /\ low = <<110, 97, 110>>
        THEN [err |-> "", val |-> nanBits]
        ELSE
    (CHOOSE the \in {
        IF ~f.ok \/ f.i # Len(s) + 1
        THEN [err |-> errParseFloat, val |-> Zero64]
        ELSE IF Len(f.digits) = 0
        THEN [err |-> "",
              val |-> <<IF f.neg THEN 128 ELSE 0, 0, 0, 0, 0, 0, 0, 0>>]
        ELSE IF f.hex
        THEN atofHex(f.neg, f.digits, f.dp - 4 * Len(f.digits))
        ELSE decimal_floatBits(f.neg, f.digits, f.dp)
      : f \in {readFloat(s)} } : TRUE)
      : low \in {LowerCase(sg.body)} } : TRUE)
      : sg \in {[signed |-> Len(s) > 0 /\ s[1] \in {43, 45},
                 neg |-> Len(s) > 0 /\ s[1] = 45,
                 body |-> IF Len(s) > 0 /\ s[1] \in {43, 45}
                          THEN Tail(s) ELSE s]} } : TRUE)

readZiplistEntry(r) ==
    LET fail(rr, msg) == [r |-> rr, err |-> msg, val |-> <<>>]
        \* return "", nil: the error of the read is dropped
        dropped(rr) == [r |-> rr, err |-> "", val |-> <<>>]
        int(g) == IF g.err # "" THEN dropped(g.r)
                  ELSE [r |-> g.r, err |-> "", val |-> Itoa(SignedLE(g.val))]
    IN  (CHOOSE the \in {
            IF prevLen0.err # "" THEN fail(prevLen0.r, prevLen0.err)
            ELSE IF prevLen0.val = ziplistEnd
            THEN fail(prevLen0.r, errZLUnexpectedEnd)
            ELSE
        (CHOOSE the \in {
            IF s.err # "" THEN fail(s.r, s.err)
            ELSE
        (CHOOSE the \in {
            IF e.err # "" THEN fail(e.r, e.err)
            ELSE
        (CHOOSE the \in {
        (CHOOSE the \in {
            IF length.ret THEN dropped(length.r)
            ELSE IF length.val # -1
            THEN (CHOOSE the \in {
                     IF data.err # "" THEN dropped(data.r)
                     ELSE [r |-> data.r, err |-> "", val |-> data.val]
                   : data \in {read(length.r, length.val)} } : TRUE)
            ELSE IF encoding = ziplistEncInt8 THEN int(read(e.r, 1))
            ELSE IF encoding = ziplistEncInt16 THEN int(read(e.r, 2))
            ELSE IF encoding = ziplistEncInt24 THEN int(read(e.r, 3))
            ELSE IF encoding = ziplistEncInt32 THEN int(read(e.r, 4))
            ELSE IF encoding = ziplistEncInt64
            THEN (CHOOSE the \in {
                     IF val.err # "" THEN dropped(val.r)
                     ELSE [r |-> val.r, err |-> "", val |-> Itoa64(val.val)]
                   : val \in {readUint64(e.r)} } : TRUE)
            ELSE [r |-> e.r, err |-> "",
                  val |-> Itoa((encoding + 256 - 241) % 256)]
          : length \in {
                IF (encoding \div 64) * 64 = ziplistEnc6BitStrLen
                THEN [r |-> e.r, ret |-> FALSE, val |-> encoding % 64]
                ELSE IF (encoding \div 64) * 64 = ziplistEnc14BitStrLen
                THEN (CHOOSE the \in {
                         [r |-> lengthLsb.r, ret |-> lengthLsb.err # "",
                          val |-> (encoding % 64) * 256 + lengthLsb.val]
                       : lengthLsb \in {readUint8(e.r)} } : TRUE)
                ELSE IF (encoding \div 64) * 64 = ziplistEnc32BitStrLen
                THEN (CHOOSE the \in {
                         [r |-> length0.r, ret |-> length0.err # "",
                          val |-> IntOf(length0.val)]
                       : length0 \in {readUint32BE(e.r)} } : TRUE)
                ELSE [r |-> e.r, ret |-> FALSE, val |-> -1]} } : TRUE)
          : encoding \in {e.val} } : TRUE)
          : e \in {readUint8(s.r)} } : TRUE)
          : s \in {IF prevLen0.val = ziplistPrevLenBig
                   THEN skip(prevLen0.r, 4)
                   ELSE [r |-> prevLen0.r, err |-> ""]} } : TRUE)
          : prevLen0 \in {readUint8(r)} } : TRUE)

\* limit of the loops over a ziplist or a listpack of declared length n
lengthLimit(n, lenBig) == IF n = lenBig THEN mathMaxInt ELSE n

\* the loop of ReadListZiplist and of readListpack: for i < limit, one
\* entry and one call of cb.  end is set when the loop returned at the end
\* byte of a container of unbounded length
RECURSIVE entryLoop(_, _, _, _, _, _, _, _, _)
entryLoop(Entry(_), errEnd, reader, hs, name, key, at, i, limit) ==
    IF ~(i < limit)
    THEN [reader |-> reader, hs |-> hs, err |-> "", end |-> FALSE, i |-> i]
    ELSE (CHOOSE the \in {
             IF elem.err = errEnd /\ limit = mathMaxInt
             THEN [reader |-> elem.r, hs |-> hs, err |-> "", end |-> TRUE,
                   i |-> i]
             ELSE IF elem.err # ""
             THEN [reader |-> elem.r, hs |-> hs, err |-> elem.err,
                   end |-> FALSE, i |-> i]
             ELSE
         (CHOOSE the \in {
             IF c.err # ""
             THEN [reader |-> elem.r, hs |-> c.hs, err |-> c.err,
                   end |-> FALSE, i |-> i]
             ELSE entryLoop(Entry, errEnd, elem.r, c.hs, name, key, at,
                            i + 1, limit)
           : c \in {Invoke(hs, at, name, key, <<elem.val>>, <<>>, TRUE)} } : TRUE)
           : elem \in {Entry(reader)} } : TRUE)

\* the loop of ReadZsetZiplist, ReadHashZiplist, ReadZsetListpack and
\* ReadHashListpack: for i < limit, i += 2, two entries and one call of cb;
\* the second entry of a sorted set goes through strconv.ParseFloat
RECURSIVE pairLoop(_, _, _, _, _, _, _, _, _)
pairLoop(Entry(_), errEnd, reader, hs, name, key, at, i, limit) ==
    IF ~(i < limit)
    THEN [reader |-> reader, hs |-> hs, err |-> "", end |-> FALSE, i |-> i]
    ELSE LET stop(rr, h, e) ==
                 [reader |-> rr, hs |-> h, err |-> e, end |-> FALSE, i |-> i]
             got(rr, e, end, args) ==
                 [r |-> rr, err |-> e, end |-> end, args |-> args]
             \* the two entries of the turn
             pair ==
                 (CHOOSE the \in {
                     IF elem.err = errEnd /\ limit = mathMaxInt
                     THEN got(elem.r, "", TRUE, <<>>)
                     ELSE IF elem.err # ""
                     THEN got(elem.r, elem.err, FALSE, <<>>)
                     ELSE
                 (CHOOSE the \in {
                     IF second.err # ""
                     THEN got(second.r, second.err, FALSE, <<>>)
                     ELSE
                 (CHOOSE the \in {
                     got(second.r, arg.err, FALSE, <<elem.val, arg.val>>)
                   : arg \in {IF name = "ZsetEntry" THEN ParseFloat(second.val)
                              ELSE [err |-> "", val |-> second.val]} } : TRUE)
                   : second \in {Entry(elem.r)} } : TRUE)
                   : elem \in {Entry(reader)} } : TRUE)
         IN  (CHOOSE the \in {
                 IF p.end
                 THEN [reader |-> p.r, hs |-> hs, err |-> "", end |-> TRUE,
                       i |-> i]
                 ELSE IF p.err # "" THEN stop(p.r, hs, p.err)
                 ELSE
             (CHOOSE the \in {
                 IF c.err # "" THEN stop(p.r, c.hs, c.err)
                 ELSE pairLoop(Entry, errEnd, p.r, c.hs, name, key, at,
                               i + 2, limit)
               : c \in {Invoke(hs, at, name, key, p.args, <<>>, TRUE)} } : TRUE)
               : p \in {pair} } : TRUE)

\* a ziplist or listpack held in the string str, r being the reader of
\* the value after that string: the header of skipLen bytes and the 16-bit
\* length are read, Loop runs up to the limit, and a container of bounded
\* length must end with the end byte.  val is the count returned: what
\* Count makes of i at the end byte of an unbounded container, else of the
\* declared length
readPacked(Loop(_, _, _), Count(_), errEnd, endByte, lenBig, str, r, hs, skipLen) ==
    LET res(h, e, v) == [r |-> r, hs |-> h, err |-> e, val |-> v]
    IN  (CHOOSE the \in {
            IF s.err # "" THEN res(hs, s.err, Zero64)
            ELSE
        (CHOOSE the \in {
            IF len.err # "" THEN res(hs, len.err, Zero64)
            ELSE
        (CHOOSE the \in {
            IF loop.err # "" THEN res(loop.hs, loop.err, Zero64)
            ELSE IF loop.end THEN res(loop.hs, "", U64(Count(loop.i)))
            ELSE
        (CHOOSE the \in {
            IF end.err # "" THEN res(loop.hs, end.err, Zero64)
            ELSE IF end.val # endByte THEN res(loop.hs, errEnd, Zero64)
            ELSE res(loop.hs, "", U64(Count(IntOf(len.val))))
          : end \in {readUint8(loop.reader)} } : TRUE)
          : loop \in {Loop(len.r, hs, lengthLimit(IntOf(len.val), lenBig))} } : TRUE)
          : len \in {readUint16(s.r)} } : TRUE)
          : s \in {skip([newValueReader(str) EXCEPT
                            !.maxLz77StrLen = r.maxLz77StrLen], skipLen)} } : TRUE)

\* ReadString, then the container in the string
readPackedString(Packed(_, _), r, hs) ==
    (CHOOSE the \in {
        IF str.err # ""
        THEN [r |-> str.r, hs |-> hs, err |-> str.err, val |-> Zero64]
        ELSE Packed(str.val, str.r)
      : str \in {ReadString(r)} } : TRUE)

ziplistOf(Loop(_, _, _), Count(_), str, r, hs) ==
    readPacked(Loop, Count, errZLUnexpectedEnd, ziplistEnd, ziplistLenBig,
               str, r, hs, 8)

listpackOf(Loop(_, _, _), Count(_), str, r, hs) ==
    readPacked(Loop, Count, errLPUnexpectedEnd, listpackEnd, listpackLenBig,
               str, r, hs, 4)

ReadListZiplist(r, hs, key) ==
    LET Count(n) == n
        Packed(str, rr) ==
            LET Loop(reader, h, limit) ==
                    entryLoop(readZiplistEntry, errZLUnexpectedEnd, reader,
                              h, "ListEntry", key, Consumed(rr), 0, limit)
            IN  ziplistOf(Loop, Count, str, rr, hs)
    IN  readPackedString(Packed, r, hs)

ReadZsetZiplist(r, hs, key) ==
    LET Count(n) == n \div 2
        Packed(str, rr) ==
            LET Loop(reader, h, limit) ==
                    pairLoop(readZiplistEntry, errZLUnexpectedEnd, reader, h,
                             "ZsetEntry", key, Consumed(rr), 0, limit)
            IN  ziplistOf(Loop, Count, str, rr, hs)
    IN  readPackedString(Packed, r, hs)

ReadHashZiplist(r, hs, key) ==
    LET Count(n) == 0
        Packed(str, rr) ==
            LET Loop(reader, h, limit) ==
                    pairLoop(readZiplistEntry, errZLUnexpectedEnd, reader, h,
                             "HashEntry", key, Consumed(rr), 0, limit)
            IN  ziplistOf(Loop, Count, str, rr, hs)
    IN  readPackedString(Packed, r, hs)

ReadHashListpack(r, hs, key) ==
    LET Count(n) == 0
        Packed(str, rr) ==
            LET Loop(reader, h, limit) ==
                    pairLoop(readListpackEntry, errLPUnexpectedEnd, reader,
                             h, "HashEntry", key, Consumed(rr), 0, limit)
            IN  listpackOf(Loop, Count, str, rr, hs)
    IN  readPackedString(Packed, r, hs)

ReadZsetListpack(r, hs, key) ==
    LET Count(n) == n \div 2
        Packed(str, rr) ==
            LET Loop(reader, h, limit) ==
                    pairLoop(readListpackEntry, errLPUnexpectedEnd, reader,
                             h, "ZsetEntry", key, Consumed(rr), 0, limit)
            IN  listpackOf(Loop, Count, str, rr, hs)
    IN  readPackedString(Packed, r, hs)

\* readListpack(listpack, cb): name is the callback cb makes
readListpack(r, listpack, hs, name, key) ==
    LET Count(n) == n
        Loop(reader, h, limit) ==
            entryLoop(readListpackEntry, errLPUnexpectedEnd, reader, h, name,
                      key, Consumed(r), 0, limit)
    IN  listpackOf(Loop, Count, listpack, r, hs)

ReadSetListpack(r, hs, key) ==
    LET Packed(str, rr) == readListpack(rr, str, hs, "SetEntry", key)
    IN  readPackedString(Packed, r, hs)

RECURSIVE ReadListQuicklistLoop(_, _, _, _, _, _)
ReadListQuicklistLoop(r, hs, key, i, length, totalRead) ==
    IF ~(i < length)
    THEN [r |-> r, hs |-> hs, err |-> "", val |-> totalRead]
    ELSE (CHOOSE the \in {
             IF n.err # ""
             THEN [r |-> n.r, hs |-> n.hs, err |-> n.err,
                   val |-> Zero64]
             ELSE ReadListQuicklistLoop(n.r, n.hs, key, i + 1, length,
                                        Add64(totalRead, n.val))
           : n \in {ReadListZiplist(r, hs, key)} } : TRUE)

ReadListQuicklist(r, hs, key) ==
    (CHOOSE the \in {
        IF l.err # "" THEN [r |-> l.r, hs |-> hs, err |-> l.err, val |-> Zero64]
        ELSE ReadListQuicklistLoop(l.r, hs, key, 0, IntOf(l.val), Zero64)
      : l \in {readLen(r)} } : TRUE)

errQuicklist2Container == "unexpected quicklist2 container"

RECURSIVE ReadListQuicklist2Loop(_, _, _, _, _, _)
ReadListQuicklist2Loop(r, hs, key, i, length, totalRead) ==
    LET fail(rr, h, e) == [r |-> rr, hs |-> h, err |-> e, val |-> Zero64]
    IN  IF ~(i < length)
        THEN [r |-> r, hs |-> hs, err |-> "", val |-> totalRead]
        ELSE (CHOOSE the \in {
                 IF container.err # "" THEN fail(container.r, hs, container.err)
                 ELSE
             (CHOOSE the \in {
                 IF data.err # "" THEN fail(data.r, hs, data.err)
                 ELSE IF container.val = U64(quicklist2NodePlain)
                 THEN (CHOOSE the \in {
                          IF c.err # "" THEN fail(data.r, c.hs, c.err)
                          ELSE ReadListQuicklist2Loop(
                                   data.r, c.hs, key, i + 1, length,
                                   Add64(totalRead, U64(1)))
                        : c \in {Invoke(hs, Consumed(data.r), "ListEntry", key,
                                        <<data.val>>, <<>>, TRUE)} } : TRUE)
                 ELSE IF container.val = U64(quicklist2NodePacked)
                 THEN (CHOOSE the \in {
                          IF n.err # "" THEN fail(data.r, n.hs, n.err)
                          ELSE ReadListQuicklist2Loop(
                                   data.r, n.hs, key, i + 1, length,
                                   Add64(totalRead, n.val))
                        : n \in {readListpack(data.r, data.val, hs,
                                                 "ListEntry", key)} } : TRUE)
                 ELSE fail(data.r, hs, errQuicklist2Container)
               : data \in {ReadString(container.r)} } : TRUE)
               : container \in {readLen(r)} } : TRUE)

ReadListQuicklist2(r, hs, key) ==
    (CHOOSE the \in {
        IF l.err # "" THEN [r |-> l.r, hs |-> hs, err |-> l.err, val |-> Zero64]
        ELSE ReadListQuicklist2Loop(l.r, hs, key, 0, IntOf(l.val), Zero64)
      : l \in {readLen(r)} } : TRUE)

\* a zipmap length byte: below zipmapLenBig it is the length, else the
\* length follows in four bytes
zipmapLen(r, len0) ==
    IF len0 < zipmapLenBig THEN [r |-> r, err |-> "", val |-> len0]
    ELSE (CHOOSE the \in {
             [r |-> l.r, err |-> l.err, val |-> IntOf(l.val)]
           : l \in {readUint32(r)} } : TRUE)

RECURSIVE ReadHashZipmapLoop(_, _, _, _, _, _)
ReadHashZipmapLoop(reader, hs, key, at, i, limit) ==
    LET stop(h, e) == [reader |-> reader, hs |-> h, err |-> e, end |-> FALSE]
        got(rr, e, end, args) ==
            [r |-> rr, err |-> e, end |-> end, args |-> args]
        \* the field and the value of the turn
        pair ==
            (CHOOSE the \in {
                IF len0.err # "" THEN got(reader, len0.err, FALSE, <<>>)
                ELSE IF len0.val = zipmapEnd
                THEN IF limit = mathMaxInt THEN got(len0.r, "", TRUE, <<>>)
                     ELSE got(reader, errZMUnexpectedEnd, FALSE, <<>>)
                ELSE
            (CHOOSE the \in {
                IF fieldLen.err # "" THEN got(reader, fieldLen.err, FALSE, <<>>)
                ELSE
            (CHOOSE the \in {
                IF fieldData.err # ""
                THEN got(reader, fieldData.err, FALSE, <<>>)
                ELSE
            (CHOOSE the \in {
                IF len1.err # "" THEN got(reader, len1.err, FALSE, <<>>)
                ELSE IF len1.val = zipmapEnd
                THEN got(reader, errZMUnexpectedEnd, FALSE, <<>>)
                ELSE
            (CHOOSE the \in {
                IF valueLen.err # "" THEN got(reader, valueLen.err, FALSE, <<>>)
                ELSE
            (CHOOSE the \in {
                IF freeLen.err # "" THEN got(reader, freeLen.err, FALSE, <<>>)
                ELSE
            (CHOOSE the \in {
                IF valueData.err # ""
                THEN got(reader, valueData.err, FALSE, <<>>)
                ELSE
            (CHOOSE the \in {
                got(s.r, s.err, FALSE, <<fieldData.val, valueData.val>>)
              : s \in {skip(valueData.r, freeLen.val)} } : TRUE)
              : valueData \in {read(freeLen.r, valueLen.val)} } : TRUE)
              : freeLen \in {readUint8(valueLen.r)} } : TRUE)
              : valueLen \in {zipmapLen(len1.r, len1.val)} } : TRUE)
              : len1 \in {readUint8(fieldData.r)} } : TRUE)
              : fieldData \in {read(fieldLen.r, fieldLen.val)} } : TRUE)
              : fieldLen \in {zipmapLen(len0.r, len0.val)} } : TRUE)
              : len0 \in {readUint8(reader)} } : TRUE)
    IN  IF ~(i < limit)
        THEN [reader |-> reader, hs |-> hs, err |-> "", end |-> FALSE]
        ELSE
        (CHOOSE the \in {
            IF p.end
            THEN [reader |-> p.r, hs |-> hs, err |-> "", end |-> TRUE]
            ELSE IF p.err # "" THEN stop(hs, p.err)
            ELSE
        (CHOOSE the \in {
            IF c.err # "" THEN stop(c.hs, c.err)
            ELSE ReadHashZipmapLoop(p.r, c.hs, key, at, i + 1, limit)
          : c \in {Invoke(hs, at, "HashEntry", key, p.args, <<>>, TRUE)} } : TRUE)
          : p \in {pair} } : TRUE)

ReadHashZipmap(r, hs, key) ==
    LET res(rr, h, e) == [r |-> rr, hs |-> h, err |-> e]
    IN  (CHOOSE the \in {
            IF zipmap.err # "" THEN res(zipmap.r, hs, zipmap.err)
            ELSE
        (CHOOSE the \in {
            IF zmlen.err # "" THEN res(zipmap.r, hs, zmlen.err)
            ELSE
        (CHOOSE the \in {
            IF loop.err # "" \/ loop.end THEN res(zipmap.r, loop.hs, loop.err)
            ELSE
        (CHOOSE the \in {
            IF zmend.err # "" THEN res(zipmap.r, loop.hs, zmend.err)
            ELSE IF zmend.val # zipmapEnd
            THEN res(zipmap.r, loop.hs, errZMUnexpectedEnd)
            ELSE res(zipmap.r, loop.hs, "")
          : zmend \in {readUint8(loop.reader)} } : TRUE)
          : loop \in {ReadHashZipmapLoop(
                          zmlen.r, hs, key, Consumed(zipmap.r), 0,
                          IF zmlen.val < zipmapLenBig THEN zmlen.val
                          ELSE mathMaxInt)} } : TRUE)
          : zmlen \in {readUint8(newValueReader(zipmap.val))} } : TRUE)
          : zipmap \in {ReadString(r)} } : TRUE)

\* the score of an element of a plain sorted set
readZsetScore(r) ==
    (CHOOSE the \in {
        IF scoreLen.err # ""
        THEN [r |-> scoreLen.r, err |-> scoreLen.err, val |-> Zero64]
        ELSE IF scoreLen.val = 255
        THEN [r |-> scoreLen.r, err |-> "", val |-> negInfBits]
        ELSE IF scoreLen.val = 254
        THEN [r |-> scoreLen.r, err |-> "", val |-> posInfBits]
        ELSE IF scoreLen.val = 253
        THEN [r |-> scoreLen.r, err |-> "", val |-> nanBits]
        ELSE
    (CHOOSE the \in {
        IF data.err # "" THEN [r |-> data.r, err |-> data.err, val |-> Zero64]
        ELSE
    (CHOOSE the \in {
        [r |-> data.r, err |-> score.err, val |-> score.val]
      : score \in {ParseFloat(data.val)} } : TRUE)
      : data \in {read(scoreLen.r, scoreLen.val)} } : TRUE)
      : scoreLen \in {readUint8(r)} } : TRUE)

RECURSIVE ReadZsetLoop(_, _, _, _, _)
ReadZsetLoop(r, hs, key, i, length) ==
    LET fail(rr, h, e) == [r |-> rr, hs |-> h, err |-> e, val |-> Zero64]
    IN  IF ~(i < IntOf(length))
        THEN [r |-> r, hs |-> hs, err |-> "", val |-> length]
        ELSE
        (CHOOSE the \in {
            IF elem.err # "" THEN fail(elem.r, hs, elem.err)
            ELSE
        (CHOOSE the \in {
            IF score.err # "" THEN fail(score.r, hs, score.err)
            ELSE
        (CHOOSE the \in {
            IF c.err # "" THEN fail(score.r, c.hs, c.err)
            ELSE ReadZsetLoop(score.r, c.hs, key, i + 1, length)
          : c \in {Invoke(hs, Consumed(score.r), "ZsetEntry", key,
                          <<elem.val, score.val>>, <<>>, TRUE)} } : TRUE)
          : score \in {readZsetScore(elem.r)} } : TRUE)
          : elem \in {ReadString(r)} } : TRUE)

ReadZset(r, hs, key) ==
    (CHOOSE the \in {
        IF l.err # "" THEN [r |-> l.r, hs |-> hs, err |-> l.err, val |-> Zero64]
        ELSE ReadZsetLoop(l.r, hs, key, 0, l.val)
      : l \in {readLen(r)} } : TRUE)

(***************************************************************************)
(* module_reader.go                                                        *)
(***************************************************************************)
\* id & 0xFFFFFFFFFFFFFC00
ModuleIDOf(id) ==
    <<id[1], id[2], id[3], id[4], id[5], id[6], (id[7] \div 4) * 4, 0>>

\* id & 0x3FF
ModuleVersionOf(id) == <<0, 0, 0, 0, 0, 0, id[7] % 4, id[8]>>

moduleReader_readString(r) ==
    (CHOOSE the \in {
        IF op.err # "" THEN [r |-> op.r, err |-> op.err, val |-> <<>>]
        ELSE IF op.val # U64(moduleOpCodeString)
        THEN [r |-> op.r, err |-> "unexpected opcode", val |-> <<>>]
        ELSE ReadString(op.r)
      : op \in {readLen(r)} } : TRUE)

moduleReader_readEOF(r) ==
    (CHOOSE the \in {
        IF op.err # "" THEN [r |-> op.r, err |-> op.err]
        ELSE IF op.val # U64(moduleOpCodeEOF)
        THEN [r |-> op.r, err |-> "module not terminated with EOF"]
        ELSE [r |-> op.r, err |-> ""]
      : op \in {readLen(r)} } : TRUE)

(***************************************************************************)
(* strconv.FormatFloat(f, 'g', -1, 64): the shortest decimal that parses   *)
(* back to f and, among those of that length, the one nearest to f.  The   *)
(* first digits of f come from a division; the shortest of them that round *)
(* trip, cut or rounded up, are found with the floatBits of ParseFloat.    *)
(***************************************************************************)
\* the digits k..n of d times c, from the last of them on: st holds the
\* carry and the digits found so far
RECURSIVE DecMulRun(_, _, _, _, _)
DecMulRun(d, c, k, n, st) ==
    IF k > n THEN st
    ELSE IF k = n
    THEN (CHOOSE the \in {
             [carry |-> x \div 10000, out |-> <<x % 10000>> \o st.out]
           : x \in {d[k] * c + st.carry} } : TRUE)
    ELSE (CHOOSE the \in {
             DecMulRun(d, c, k, (k + n) \div 2, half)
           : half \in {DecMulRun(d, c, ((k + n) \div 2) + 1, n, st)} } : TRUE)

\* d * c + a for the number d held as its digits to the base 10000, the
\* most significant first
DecMulAdd(d, c, a) ==
    (CHOOSE the \in {
        (IF r.carry = 0 THEN <<>> ELSE <<r.carry>>) \o r.out
      : r \in {DecMulRun(d, c, 1, Len(d), [carry |-> a, out |-> <<>>])} } : TRUE)

\* d * 256^(n - k + 1) + the bytes k..n of b
RECURSIVE DecOfBytes(_, _, _, _)
DecOfBytes(b, k, n, d) ==
    IF k > n THEN d
    ELSE IF k = n THEN DecMulAdd(d, 256, b[k])
    ELSE (CHOOSE the \in {
             DecOfBytes(b, ((k + n) \div 2) + 1, n, half)
           : half \in {DecOfBytes(b, k, (k + n) \div 2, d)} } : TRUE)

\* the decimal digits of the number d
DecDigits(d) ==
    IF Len(d) = 0 THEN <<>>
    ELSE DigitsOfNat(d[1])
             \o [j \in 1..(4 * (Len(d) - 1)) |->
                    48 + ((d[2 + ((j - 1) \div 4)]
                               \div (10 ^ (3 - ((j - 1) % 4)))) % 10)]

\* d without the zeros it ends with, its first digit kept
StripZeros(d) ==
    IF Len(d) = 0 THEN d
    ELSE SubSeq(d, 1, CHOOSE k \in 1..Len(d) :
                          /\ k = 1 \/ d[k] # 48
                          /\ \A m \in (k + 1)..Len(d) : d[m] = 48)

\* d + 1 on the decimal digits d
DigitsInc(d) ==
    IF \A j \in 1..Len(d) : d[j] >= 57
    THEN <<49>> \o [j \in 1..Len(d) |-> 48]
    ELSE (CHOOSE the \in {
             [j \in 1..Len(d) |->
                 IF j < last THEN d[j] ELSE IF j = last THEN d[j] + 1 ELSE 48]
           : last \in {CHOOSE k \in 1..Len(d) :
                           /\ d[k] < 57
                           /\ \A m \in (k + 1)..Len(d) : d[m] >= 57} } : TRUE)

\* strconv's %e with the shortest digits: d[.ddd]e(+|-)dd
fmtE(neg, digs) ==
    LET exp == digs.dp - 1
        mag == IF exp < 0 THEN 0 - exp ELSE exp
    IN  (IF neg THEN <<45>> ELSE <<>>)
            \o <<digs.d[1]>>
            \o (IF Len(digs.d) > 1
                THEN <<46>> \o SubSeq(digs.d, 2, Len(digs.d)) ELSE <<>>)
            \o <<101, IF exp < 0 THEN 45 ELSE 43>>
            \o (IF mag < 10 THEN <<48>> ELSE <<>>)
            \o (IF mag = 0 THEN <<48>> ELSE DigitsOfNat(mag))

\* strconv's %f with the shortest digits
fmtF(neg, digs) ==
    LET nd == Len(digs.d)
        prec == IF nd > digs.dp THEN nd - digs.dp ELSE 0
        at(j) == IF j >= 1 /\ j <= nd THEN digs.d[j] ELSE 48
    IN  (IF neg THEN <<45>> ELSE <<>>)
            \o (IF digs.dp > 0 THEN [j \in 1..digs.dp |-> at(j)] ELSE <<48>>)
            \o (IF prec > 0
                THEN <<46>> \o [j \in 1..prec |-> at(digs.dp + j)]
                ELSE <<>>)

\* the first decimal digits, 19 of them or more, of the float m * 2^e for
\* m > 0: the number is 0.d... * 10^dp, and exact when no digit other than
\* 0 follows d.  p is chosen from the length of m in binary digits so that
\* the number times 10^p has that many digits before the point
floatDigits(m, e) ==
    (CHOOSE the \in {
    (CHOOSE the \in {
    (CHOOSE the \in {
    (CHOOSE the \in {
    (CHOOSE the \in {
        [d |-> d, dp |-> Len(d) - p, exact |-> BigIsZero(q.r)]
      : d \in {DecDigits(DecOfBytes(b, 1, 10, <<>>))} } : TRUE)
      : b \in {[j \in 1..10 |->
                   ByteOfBits(ZeroDigits(80 - Len(q.bits)) \o q.bits,
                              8 * j - 7)]} } : TRUE)
      : q \in {IF BigLess(al.n, al.d)
               THEN BigDiv(al.n, al.d, al.k + e + p, <<0>>)
               ELSE BigDiv(BigSub(al.n, al.d), al.d, al.k + e + p, <<1>>)} } : TRUE)
      : al \in {BigAlign(BigPow5(m, MaxInt(p, 0)),
                         BigPow5(<<1>>, MaxInt(0 - p, 0)))} } : TRUE)
      : p \in {19 - (((BigBitLen(m) + e - 1) * 30103) \div 100000)} } : TRUE)

\* the digits c with their decimal point read back as a float give bits
RoundTrips(bits, c) ==
    (CHOOSE the \in {
        p.err = "" /\ p.val = bits
      : p \in {decimal_floatBits(bits[1] >= 128,
                                 [j \in 1..Len(c.d) |-> c.d[j] - 48],
                                 c.dp)} } : TRUE)

\* the first k digits of x as they are (up = FALSE) or with 1 added to the
\* last of them
floatDigitsCut(x, k, up) ==
    IF ~up THEN [d |-> SubSeq(x.d, 1, k), dp |-> x.dp]
    ELSE (CHOOSE the \in {
             [d |-> u, dp |-> IF Len(u) > k THEN x.dp + 1 ELSE x.dp]
           : u \in {DigitsInc(SubSeq(x.d, 1, k))} } : TRUE)

\* the shortest digits that round trip: the fewest first digits of x that
\* do so as they are or with 1 added to the last; when both do, the nearer
\* to x.  Seventeen digits always round trip
roundShortest(bits, x) ==
    LET ok(k) == RoundTrips(bits, floatDigitsCut(x, k, FALSE))
                     \/ RoundTrips(bits, floatDigitsCut(x, k, TRUE))
    IN
    (CHOOSE the \in {
    (CHOOSE the \in {
        [d |-> StripZeros(c.d), dp |-> c.dp]
      : c \in {floatDigitsCut(
                   x, k,
                   ~RoundTrips(bits, floatDigitsCut(x, k, FALSE))
                       \/ (x.d[k + 1] >= 53
                             /\ RoundTrips(bits,
                                           floatDigitsCut(x, k, TRUE))))} } : TRUE)
      : k \in {CHOOSE k \in 1..17 : ok(k) /\ (k = 1 \/ ~ok(k - 1))} } : TRUE)

FormatFloat(bits) ==
    (CHOOSE the \in {
        IF x.be = 2047
        THEN IF ~x.fracZero THEN <<78, 97, 78>>
             ELSE IF x.neg THEN <<45, 73, 110, 102>>
             ELSE <<43, 73, 110, 102>>
        ELSE IF x.be = 0 /\ x.fracZero
        THEN IF x.neg THEN <<45, 48>> ELSE <<48>>
        ELSE
        (CHOOSE the \in {
            IF digs.dp - 1 < -4 \/ digs.dp - 1 >= 6
            THEN fmtE(x.neg, digs) ELSE fmtF(x.neg, digs)
          : digs \in {roundShortest(
                          bits,
                          floatDigits(
                              BigOfDigits(
                                  [j \in 1..14 |->
                                      IF j = 1
                                      THEN (IF x.be = 0 THEN 0 ELSE 1)
                                      ELSE IF j % 2 = 0
                                      THEN bits[(j \div 2) + 1] % 16
                                      ELSE bits[(j \div 2) + 2] \div 16],
                                  1, 16, <<>>),
                              (IF x.be = 0 THEN 1 ELSE x.be) - 1075))} } : TRUE)
      : x \in {[neg |-> bits[1] >= 128,
                be |-> (bits[1] % 128) * 16 + (bits[2] \div 16),
                fracZero |-> bits[2] % 16 = 0
                                 /\ \A k \in 3..8 : bits[k] = 0]} } : TRUE)

(***************************************************************************)
(* The values of a version 0 JSON node tree, and oj.JSON of the ojg        *)
(* library over them.  A value is a record with its kind in t.  A Go map   *)
(* is kept as the sequence of its entries in the order the keys were first *)
(* assigned; the order in which the library walks the map is not fixed by  *)
(* the language and is chosen anew for every map: mapOrder numbers the     *)
(* choices of one call, its lowest digits the permutation of the first map *)
(* walked, what they leave the permutations of the maps walked after it.   *)
(***************************************************************************)
jsonNull == [t |-> "null"]

\* dict[key] = value
MapAssign(dict, key, value) ==
    IF \E j \in 1..Len(dict) : dict[j].key = key
    THEN [j \in 1..Len(dict) |->
              IF dict[j].key = key THEN [key |-> key, val |-> value]
              ELSE dict[j]]
    ELSE Append(dict, [key |-> key, val |-> value])

\* the permutation of s numbered order
RECURSIVE MapRange(_, _)
MapRange(s, order) ==
    IF Len(s) = 0 THEN <<>>
    ELSE LET k == (order % Len(s)) + 1
         IN  <<s[k]>> \o MapRange(SubSeq(s, 1, k - 1)
                                      \o SubSeq(s, k + 1, Len(s)),
                                  order \div Len(s))

\* what a range over n entries leaves of order for the next range
RECURSIVE MapRest(_, _)
MapRest(n, order) == IF n = 0 THEN order ELSE MapRest(n - 1, order \div n)

hexDigit(n) == IF n < 10 THEN 48 + n ELSE 87 + n

\* a JSON string literal
RECURSIVE jsonEscape(_, _)
jsonEscape(s, k) ==
    IF k > Len(s) THEN <<>>
    ELSE (IF s[k] = 34 THEN <<92, 34>>
          ELSE IF s[k] = 92 THEN <<92, 92>>
          ELSE IF s[k] = 8 THEN <<92, 98>>
          ELSE IF s[k] = 9 THEN <<92, 116>>
          ELSE IF s[k] = 10 THEN <<92, 110>>
          ELSE IF s[k] = 12 THEN <<92, 102>>
          ELSE IF s[k] = 13 THEN <<92, 114>>
          ELSE IF s[k] < 32
          THEN <<92, 117, 48, 48, hexDigit(s[k] \div 16), hexDigit(s[k] % 16)>>
          ELSE <<s[k]>>) \o jsonEscape(s, k + 1)

jsonString(s) == <<34>> \o jsonEscape(s, 1) \o <<34>>

RECURSIVE oj_JSON(_, _)
RECURSIVE oj_JSONItems(_, _, _, _)
\* the members of an array (keyed = FALSE) or of a map, comma separated; order
\* is what the maps walked so far have left of mapOrder
oj_JSONItems(items, k, keyed, mapOrder) ==
    IF k > Len(items) THEN [val |-> <<>>, order |-> mapOrder]
    ELSE
    (CHOOSE the \in {
    (CHOOSE the \in {
        [val |-> (IF k > 1 THEN <<44>> ELSE <<>>)
                     \o (IF keyed
                         THEN jsonString(items[k].key) \o <<58>>
                         ELSE <<>>)
                     \o v.val \o rest.val,
         order |-> rest.order]
      : rest \in {oj_JSONItems(items, k + 1, keyed, v.order)} } : TRUE)
      : v \in {oj_JSON(IF keyed THEN items[k].val ELSE items[k], mapOrder)} } : TRUE)

oj_JSON(value, mapOrder) ==
    IF value.t = "null"
    THEN [val |-> <<110, 117, 108, 108>>, order |-> mapOrder]
    ELSE IF value.t = "string"
    THEN [val |-> jsonString(value.v), order |-> mapOrder]
    ELSE IF value.t = "number"
    THEN [val |-> FormatFloat(value.v), order |-> mapOrder]
    ELSE IF value.t = "integer"
    THEN [val |-> Itoa64(value.v), order |-> mapOrder]
    ELSE IF value.t = "bool"
    THEN [val |-> IF value.v THEN <<116, 114, 117, 101>>
                  ELSE <<102, 97, 108, 115, 101>>,
          order |-> mapOrder]
    ELSE IF value.t = "dict"
    THEN (CHOOSE the \in {
             [m EXCEPT !.val = <<123>> \o m.val \o <<125>>]
           : m \in {oj_JSONItems(MapRange(value.v, mapOrder), 1, TRUE,
                                 MapRest(Len(value.v), mapOrder))} } : TRUE)
    ELSE (CHOOSE the \in {
             [m EXCEPT !.val = <<91>> \o m.val \o <<93>>]
           : m \in {oj_JSONItems(value.v, 1, FALSE, mapOrder)} } : TRUE)

moduleReader_readUint64(r) ==
    (CHOOSE the \in {
        IF op.err # "" THEN [r |-> op.r, err |-> op.err, val |-> Zero64]
        ELSE IF op.val # U64(moduleOpCodeUInt)
        THEN [r |-> op.r, err |-> "unexpected opcode", val |-> Zero64]
        ELSE (CHOOSE the \in {
                 [r |-> value.r, err |-> value.err,
                  val |-> IF value.err # "" THEN Zero64 ELSE value.val]
               : value \in {readLen(op.r)} } : TRUE)
      : op \in {readLen(r)} } : TRUE)

\* int64(value): the same 64 bits
moduleReader_readInt64(r) == moduleReader_readUint64(r)

\* the float64 is kept as its bits
moduleReader_readFloat64(r) ==
    (CHOOSE the \in {
        IF op.err # "" THEN [r |-> op.r, err |-> op.err, val |-> Zero64]
        ELSE IF op.val # U64(moduleOpCodeDouble)
        THEN [r |-> op.r, err |-> "unexpected opcode", val |-> Zero64]
        ELSE (CHOOSE the \in {
                 [r |-> value.r, err |-> value.err,
                  val |-> IF value.err # "" THEN Zero64 ELSE value.val]
               : value \in {readUint64(op.r)} } : TRUE)
      : op \in {readLen(r)} } : TRUE)

\* readJSONV0(true): the value of the node at the reader
RECURSIVE readJSONV0Node(_)
RECURSIVE readJSONV0Dict(_, _, _, _)
RECURSIVE readJSONV0Array(_, _, _, _)
readJSONV0Dict(r, i, length, dict) ==
    LET fail(rr, e) == [r |-> rr, err |-> e, val |-> jsonNull]
    IN  IF ~(i < IntOf(length))
        THEN [r |-> r, err |-> "", val |-> [t |-> "dict", v |-> dict]]
        ELSE
        (CHOOSE the \in {
            IF innerNode.err # "" THEN fail(innerNode.r, innerNode.err)
            ELSE IF innerNode.val # U64(jsonModuleV0NodeKeyVal)
            THEN fail(innerNode.r, "unexpected inner node type")
            ELSE
        (CHOOSE the \in {
            IF key.err # "" THEN fail(key.r, key.err)
            ELSE
        (CHOOSE the \in {
            IF value.err # "" THEN fail(value.r, value.err)
            ELSE readJSONV0Dict(value.r, i + 1, length,
                                MapAssign(dict, key.val, value.val))
          : value \in {readJSONV0Node(key.r)} } : TRUE)
          : key \in {moduleReader_readString(innerNode.r)} } : TRUE)
          : innerNode \in {moduleReader_readUint64(r)} } : TRUE)

readJSONV0Array(r, i, length, array) ==
    IF ~(i < IntOf(length))
    THEN [r |-> r, err |-> "", val |-> [t |-> "array", v |-> array]]
    ELSE
    (CHOOSE the \in {
        IF elem.err # "" THEN [r |-> elem.r, err |-> elem.err, val |-> jsonNull]
        ELSE readJSONV0Array(elem.r, i + 1, length, Append(array, elem.val))
      : elem \in {readJSONV0Node(r)} } : TRUE)

readJSONV0Node(r) ==
    LET fail(rr, e) == [r |-> rr, err |-> e, val |-> jsonNull]
    IN  (CHOOSE the \in {
            IF node.err # "" THEN fail(node.r, node.err)
            ELSE IF node.val = U64(jsonModuleV0NodeNull)
            THEN [r |-> node.r, err |-> "", val |-> jsonNull]
            ELSE IF node.val = U64(jsonModuleV0NodeString)
            THEN (CHOOSE the \in {
                     IF s.err # "" THEN fail(s.r, s.err)
                     ELSE [r |-> s.r, err |-> "",
                           val |-> [t |-> "string", v |-> s.val]]
                   : s \in {moduleReader_readString(node.r)} } : TRUE)
            ELSE IF node.val = U64(jsonModuleV0NodeNumber)
            THEN (CHOOSE the \in {
                     IF number.err # "" THEN fail(number.r, number.err)
                     ELSE [r |-> number.r, err |-> "",
                           val |-> [t |-> "number", v |-> number.val]]
                   : number \in {moduleReader_readFloat64(node.r)} } : TRUE)
            ELSE IF node.val = U64(jsonModuleV0NodeInteger)
            THEN (CHOOSE the \in {
                     IF integer.err # "" THEN fail(integer.r, integer.err)
                     ELSE [r |-> integer.r, err |-> "",
                           val |-> [t |-> "integer", v |-> integer.val]]
                   : integer \in {moduleReader_readInt64(node.r)} } : TRUE)
            ELSE IF node.val = U64(jsonModuleV0NodeBoolean)
            THEN (CHOOSE the \in {
                     IF value.err # "" THEN fail(value.r, value.err)
                     ELSE [r |-> value.r, err |-> "",
                           val |-> [t |-> "bool",
                                    v |-> Len(value.val) = 1
                                              /\ value.val[1] = 49]]
                   : value \in {moduleReader_readString(node.r)} } : TRUE)
            ELSE IF node.val = U64(jsonModuleV0NodeDict)
            THEN (CHOOSE the \in {
                     IF length.err # "" THEN fail(length.r, length.err)
                     ELSE readJSONV0Dict(length.r, 0, length.val, <<>>)
                   : length \in {moduleReader_readUint64(node.r)} } : TRUE)
            ELSE IF node.val = U64(jsonModuleV0NodeArray)
            THEN (CHOOSE the \in {
                     IF length.err # "" THEN fail(length.r, length.err)
                     ELSE readJSONV0Array(length.r, 0, length.val, <<>>)
                   : length \in {moduleReader_readUint64(node.r)} } : TRUE)
            ELSE fail(node.r, "unexpected node type")
          : node \in {moduleReader_readUint64(r)} } : TRUE)

\* readJSONV0(false): the node at the root as a string.  The strings of a
\* string node, of a null, an integer and a boolean are made by the reader,
\* the others by strconv and oj
readJSONV0(r) ==
    (CHOOSE the \in {
        IF n.err # "" THEN [r |-> n.r, err |-> n.err, val |-> <<>>]
        ELSE IF n.val.t = "string"
        THEN [r |-> n.r, err |-> "", val |-> n.val.v]
        ELSE [r |-> n.r, err |-> "", val |-> oj_JSON(n.val, r.mapOrder).val]
      : n \in {readJSONV0Node(r)} } : TRUE)

\* every value readJSONV0(false) returns is a string, so the type assertion
\* of version 0 always holds
moduleReader_readJSON(r, version) ==
    IF version = U64(jsonModuleV0) THEN readJSONV0(r)
    ELSE IF version = U64(jsonModuleV3) THEN moduleReader_readString(r)
    ELSE [r |-> r, err |-> "unexpected JSON module version", val |-> <<>>]

moduleReader_ReadJSON(r, version) ==
    (CHOOSE the \in {
        IF json.err # "" THEN json
        ELSE
    (CHOOSE the \in {
        IF eof.err # "" THEN [r |-> eof.r, err |-> eof.err, val |-> <<>>]
        ELSE [r |-> eof.r, err |-> "", val |-> json.val]
      : eof \in {moduleReader_readEOF(json.r)} } : TRUE)
      : json \in {moduleReader_readJSON(r, version)} } : TRUE)

RECURSIVE moduleReader_Skip(_)
moduleReader_Skip(r) ==
    LET \* one turn of the loop: an opcode and what it stands before
        turn ==
            (CHOOSE the \in {
                IF op.err # "" THEN [r |-> op.r, err |-> op.err, eof |-> FALSE]
                ELSE
                CASE op.val = U64(moduleOpCodeEOF) ->
                         [r |-> op.r, err |-> "", eof |-> TRUE]
                  [] op.val \in {U64(moduleOpCodeSInt), U64(moduleOpCodeUInt)} ->
                         (CHOOSE the \in {
                             [r |-> l.r, err |-> l.err, eof |-> FALSE]
                           : l \in {readLen(op.r)} } : TRUE)
                  [] op.val = U64(moduleOpCodeFloat) ->
                         (CHOOSE the \in {
                             [r |-> x.r, err |-> x.err, eof |-> FALSE]
                           : x \in {skip(op.r, 4)} } : TRUE)
                  [] op.val = U64(moduleOpCodeDouble) ->
                         (CHOOSE the \in {
                             [r |-> x.r, err |-> x.err, eof |-> FALSE]
                           : x \in {skip(op.r, 8)} } : TRUE)
                  [] op.val = U64(moduleOpCodeString) ->
                         (CHOOSE the \in {
                             [r |-> x.r, err |-> x.err, eof |-> FALSE]
                           : x \in {ReadString(op.r)} } : TRUE)
                  [] OTHER ->
                         [r |-> op.r, err |-> "unexpected module opcode",
                          eof |-> FALSE]
              : op \in {readLen(r)} } : TRUE)
    IN  (CHOOSE the \in {
            IF next.eof \/ next.err # "" THEN [r |-> next.r, err |-> next.err]
            ELSE moduleReader_Skip(next.r)
          : next \in {turn} } : TRUE)

\* part_000: the 64 characters of a module name
moduleTypeNameCharSet ==
    <<"A", "B", "C", "D", "E", "F", "G", "H", "I", "J", "K", "L", "M", "N",
      "O", "P", "Q", "R", "S", "T", "U", "V", "W", "X", "Y", "Z", "a", "b",
      "c", "d", "e", "f", "g", "h", "i", "j", "k", "l", "m", "n", "o", "p",
      "q", "r", "s", "t", "u", "v", "w", "x", "y", "z", "0", "1", "2", "3",
      "4", "5", "6", "7", "8", "9", "-", "_">>

\* bit k of the 64-bit word id, bit 1 being the most significant
BitOf(id, k) == (id[((k - 1) \div 8) + 1] \div (2 ^ (7 - ((k - 1) % 8)))) % 2

\* the i-th of the nine 6-bit numbers above the 10 bits of the version
NameIndex(id, i) ==
    32 * BitOf(id, 6 * i - 5) + 16 * BitOf(id, 6 * i - 4)
        + 8 * BitOf(id, 6 * i - 3) + 4 * BitOf(id, 6 * i - 2)
        + 2 * BitOf(id, 6 * i - 1) + BitOf(id, 6 * i)

RECURSIVE constructModuleNameFrom(_, _)
constructModuleNameFrom(id, i) ==
    IF i > 9 THEN ""
    ELSE moduleTypeNameCharSet[NameIndex(id, i) + 1]
             \o constructModuleNameFrom(id, i + 1)

constructModuleName(id) == constructModuleNameFrom(id, 1)

\* errUnsupportedModule without the name of the module:
\* C17_ReadModule2Unsupported does not hold of it
errUnsupportedModule_noName(id) == "unsupported module"

\* errors.New("unsupported module " + name)
errUnsupportedModule(id) == "unsupported module " \o constructModuleName(id)

\* reader.go: ReadModule2
ReadModule2(r, skipUnsupported) ==
    LET fail(rr, e) ==
            [r |-> rr, err |-> e, val |-> <<>>, marker |-> EmptyModuleMarker]
    IN  (CHOOSE the \in {
            IF id.err # "" THEN fail(id.r, id.err)
            ELSE
        (CHOOSE the \in {
            IF ModuleIDOf(id.val) = jsonModuleID
       THEN (CHOOSE the \in {
                IF v.err # "" THEN fail(v.r, v.err)
                ELSE [r |-> v.r, err |-> "", val |-> v.val,
                      marker |-> JSONModuleMarker]
              : v \in {moduleReader_ReadJSON(id.r, version)} } : TRUE)
            ELSE IF skipUnsupported
            THEN (CHOOSE the \in {
                     [r |-> s.r, err |-> s.err, val |-> <<>>,
                      marker |-> EmptyModuleMarker]
                   : s \in {moduleReader_Skip(id.r)} } : TRUE)
            ELSE fail(id.r, errUnsupportedModule(id.val))
          : version \in {ModuleVersionOf(id.val)} } : TRUE)
          : id \in {readLen(r)} } : TRUE)

(***************************************************************************)
(* stream_reader.go.  A StreamID is [Millis, Seq], a StreamEntry is        *)
(* [ID, Value], a StreamPendingEntry is [Entry, DeliveryTime,              *)
(* DeliveryCount], a StreamConsumer is [Name, SeenTime, ActiveTime,        *)
(* PendingEntries] and a StreamConsumerGroup is [Name, LastID,             *)
(* EntriesRead, Consumers].  A nil Value is the record field isNil.        *)
(*                                                                         *)
(* The callbacks of the two passes are selected by mode: "deliver" is the  *)
(* caller's callback, "collect" the closure of the other pass.  acc holds  *)
(* what the closures capture: the handler, the read counter and the        *)
(* pendingEntries map.                                                     *)
(***************************************************************************)
\* the loop bound of a loop that counts in uint64
UIntOf(x) ==
    IF x[1] = 0 /\ x[2] = 0 /\ x[3] = 0 /\ x[4] = 0 /\ x[5] < 32
    THEN x[5] * 16777216 + x[6] * 65536 + x[7] * 256 + x[8]
    ELSE 536870912

memoryBackedBuffer_View(b, pos) == [buf |-> b.buf, len |-> b.len, pos |-> pos]

\* fileBackedBuffer.View when os.Open and file.Seek succeed: a new buffer of
\* the same fileLen and bufCap, with a crcCalculator of its own, over the
\* file opened once more; the read offset of that file is pos bytes from
\* the start of the file, and filePos is pos
fileBackedBuffer_View(b, pos) ==
    [file |-> b.file]
      @@ [newFileBackedBuffer(b.fileLen, b.bufCap)
            EXCEPT !.osPos = pos, !.filePos = pos]

\* buf.View(pos) of the buffer of a reader that supports views
View(r, pos) ==
    [r EXCEPT !.buf = IF r.kind = "file" THEN fileBackedBuffer_View(@, pos)
                      ELSE memoryBackedBuffer_View(@, pos)]

MapPut(m, k, v) == [x \in (DOMAIN m) \cup {k} |-> IF x = k THEN v ELSE m[x]]

NilValue == [isNil |-> TRUE, v |-> <<>>]

newAcc(hs) == [hs |-> hs, read |-> 0, pending |-> <<>>]

\* the entry callbacks: entryCB of the caller, and the closure of
\* readStreamListpacks0 that counts entries and keeps the pending values
streamEntryCB(acc, mode, key, at, entry) ==
    IF mode = "deliver"
    THEN (CHOOSE the \in {
             [acc |-> [acc EXCEPT !.hs = c.hs], err |-> c.err]
           : c \in {Invoke(acc.hs, at, "StreamEntry", key, <<>>, entry, TRUE)} } : TRUE)
    ELSE [acc |-> [acc EXCEPT
                     !.read = acc.read + 1,
                     !.pending = IF entry.ID \in DOMAIN acc.pending
                                 THEN MapPut(acc.pending, entry.ID,
                                        [isNil |-> FALSE, v |-> entry.Value])
                                 ELSE acc.pending],
          err |-> ""]

\* n listpack entries in a row
RECURSIVE readListpackEntries(_, _, _)
readListpackEntries(lr, n, out) ==
    IF n <= 0 THEN [r |-> lr, err |-> "", val |-> out]
    ELSE (CHOOSE the \in {
             IF e.err # "" THEN [r |-> e.r, err |-> e.err, val |-> out]
             ELSE readListpackEntries(e.r, n - 1, Append(out, e.val))
           : e \in {readListpackEntry(lr)} } : TRUE)

\* fields = append(fields, masterFieldNames[i], value)
RECURSIVE readSameFields(_, _, _, _, _)
readSameFields(lr, i, numFields, names, fields) ==
    IF ~(i < numFields) THEN [r |-> lr, err |-> "", val |-> fields]
    ELSE (CHOOSE the \in {
             IF e.err # "" THEN [r |-> e.r, err |-> e.err, val |-> fields]
             ELSE readSameFields(e.r, i + 1, numFields, names,
                                 fields \o <<names[i + 1], e.val>>)
           : e \in {readListpackEntry(lr)} } : TRUE)

\* one listpack entry parsed with strconv.Atoi
readListpackInt(lr) ==
    (CHOOSE the \in {
        IF e.err # "" THEN [r |-> e.r, err |-> e.err, val |-> Zero64]
        ELSE
    (CHOOSE the \in {
        IF a.err # "" THEN [r |-> e.r, err |-> a.err, val |-> Zero64]
        ELSE [r |-> e.r, err |-> "", val |-> a.val]
      : a \in {Atoi64(e.val)} } : TRUE)
      : e \in {readListpackEntry(lr)} } : TRUE)

\* master + delta, as the two branches on the sign of delta compute it
ApplyDelta(master, delta) ==
    IF delta[1] >= 128 THEN Sub64(master, Neg64(delta))
    ELSE Add64(master, delta)

\* the loop over the delta-encoded entries of one pack
RECURSIVE readPackEntries(_, _, _, _, _, _, _, _, _, _)
readPackEntries(lr, acc, mode, key, at, masterID, numFields, names, j, total) ==
    IF ~(j < total) THEN [r |-> lr, acc |-> acc, err |-> ""]
    ELSE
    LET stop(x) ==
            [r |-> x.r, err |-> x.err, delete |-> FALSE, id |-> masterID,
             val |-> <<>>]
        \* the flags, the ID and the fields of the entry
        entry ==
            (CHOOSE the \in {
                IF flag.err # "" THEN stop(flag)
                ELSE
            (CHOOSE the \in {
                IF millisDelta.err # "" THEN stop(millisDelta)
                ELSE
            (CHOOSE the \in {
                IF seqDelta.err # "" THEN stop(seqDelta)
                ELSE
            (CHOOSE the \in {
            (CHOOSE the \in {
            (CHOOSE the \in {
                IF body.err # "" THEN stop(body)
                ELSE [r |-> body.r, err |-> "",
                      delete |-> (flag.val[8] % 2) # 0,
                      id |-> [Millis |-> ApplyDelta(masterID.Millis,
                                                    millisDelta.val),
                              Seq |-> ApplyDelta(masterID.Seq, seqDelta.val)],
                      val |-> body.val]
              : body \in {IF same
                          THEN readSameFields(seqDelta.r, 0, numFields, names,
                                              <<>>)
                          ELSE IF own.err # ""
                          THEN [r |-> own.r, err |-> own.err, val |-> <<>>]
                          ELSE readListpackEntries(own.r, 2 * IntOf(own.val),
                                                   <<>>)} } : TRUE)
              : own \in {readListpackInt(seqDelta.r)} } : TRUE)
              : same \in {((flag.val[8] \div 2) % 2) # 0} } : TRUE)
              : seqDelta \in {readListpackInt(millisDelta.r)} } : TRUE)
              : millisDelta \in {readListpackInt(flag.r)} } : TRUE)
              : flag \in {readListpackInt(lr)} } : TRUE)
    IN  (CHOOSE the \in {
            IF e.err # "" THEN [r |-> e.r, acc |-> acc, err |-> e.err]
            ELSE
        (CHOOSE the \in {
        (CHOOSE the \in {
            IF cnt.err # "" THEN [r |-> cnt.r, acc |-> called, err |-> cnt.err]
            ELSE readPackEntries(cnt.r, called, mode, key, at, masterID,
                                 numFields, names, j + 1, total)
          : cnt \in {readListpackEntry(e.r)} } : TRUE)
          : called \in {IF e.delete THEN acc
                        ELSE streamEntryCB(acc, mode, key, at,
                                 [ID |-> e.id, Value |-> e.val]).acc} } : TRUE)
          : e \in {entry} } : TRUE)

\* one <master-entry-id><entry-lp> pack read from r
readStreamPack(r, acc, mode, key) ==
    LET fail(rr, a, e) == [r |-> rr, acc |-> a, err |-> e]
        stop(rr, e) ==
            [r |-> rr, err |-> e, lr |-> rr,
             masterID |-> [Millis |-> Zero64, Seq |-> Zero64],
             numFields |-> 0, names |-> <<>>, total |-> 0]
        \* the master ID and what the listpack holds before its entries; lr
        \* is the reader of the listpack
        master ==
            (CHOOSE the \in {
                IF masterIDS.err # "" THEN stop(masterIDS.r, masterIDS.err)
                ELSE
            (CHOOSE the \in {
            (CHOOSE the \in {
                IF masterIDMillis.err # ""
                THEN stop(masterIDS.r, masterIDMillis.err)
                ELSE
            (CHOOSE the \in {
                IF masterIDSeq.err # "" THEN stop(masterIDS.r, masterIDSeq.err)
                ELSE
            (CHOOSE the \in {
                IF lp.err # "" THEN stop(lp.r, lp.err)
                ELSE
            (CHOOSE the \in {
            (CHOOSE the \in {
                IF hdr.err # "" THEN stop(lp.r, hdr.err)
                ELSE
            (CHOOSE the \in {
                IF count.err # "" THEN stop(lp.r, count.err)
                ELSE
            (CHOOSE the \in {
                IF deleted.err # "" THEN stop(lp.r, deleted.err)
                ELSE
            (CHOOSE the \in {
                IF numFields.err # "" THEN stop(lp.r, numFields.err)
                ELSE
            (CHOOSE the \in {
                IF names.err # "" THEN stop(lp.r, names.err)
                ELSE
            (CHOOSE the \in {
                IF zero.err # "" THEN stop(lp.r, zero.err)
                ELSE [r |-> lp.r, err |-> "", lr |-> zero.r,
                      masterID |-> [Millis |-> masterIDMillis.val,
                                    Seq |-> masterIDSeq.val],
                      numFields |-> IntOf(numFields.val),
                      names |-> names.val,
                      total |-> IntOf(Add64(count.val, deleted.val))]
              : zero \in {readListpackEntry(names.r)} } : TRUE)
              : names \in {readListpackEntries(numFields.r,
                                               IntOf(numFields.val), <<>>)} } : TRUE)
              : numFields \in {readListpackInt(deleted.r)} } : TRUE)
              : deleted \in {readListpackInt(count.r)} } : TRUE)
              : count \in {readListpackInt(hdr.r)} } : TRUE)
              : hdr \in {skip(lpReader, 6)} } : TRUE)
              : lpReader \in {newValueReader(lp.val)} } : TRUE)
              : lp \in {ReadString(masterIDS.r)} } : TRUE)
              : masterIDSeq \in {readUint64BE(masterIDMillis.r)} } : TRUE)
              : masterIDMillis \in {readUint64BE(masterIDReader)} } : TRUE)
              : masterIDReader \in {newValueReader(masterIDS.val)} } : TRUE)
              : masterIDS \in {ReadString(r)} } : TRUE)
    IN  (CHOOSE the \in {
            IF m.err # "" THEN fail(m.r, acc, m.err)
            ELSE
        (CHOOSE the \in {
            IF entries.err # "" THEN fail(m.r, entries.acc, entries.err)
            ELSE
        (CHOOSE the \in {
            IF lpEnd.err # "" THEN fail(m.r, entries.acc, lpEnd.err)
            ELSE IF lpEnd.val # listpackEnd
            THEN fail(m.r, entries.acc, errLPUnexpectedEnd)
            ELSE fail(m.r, entries.acc, "")
          : lpEnd \in {readUint8(entries.r)} } : TRUE)
          : entries \in {readPackEntries(m.lr, acc, mode, key, Consumed(m.r),
                             m.masterID, m.numFields, m.names, 0, m.total)} } : TRUE)
          : m \in {master} } : TRUE)

RECURSIVE readStreamPacks(_, _, _, _, _, _)
readStreamPacks(r, acc, mode, key, i, lpCount) ==
    IF ~(i < lpCount) THEN [r |-> r, acc |-> acc, err |-> ""]
    ELSE (CHOOSE the \in {
             IF p.err # "" THEN p
             ELSE readStreamPacks(p.r, p.acc, mode, key, i + 1, lpCount)
           : p \in {readStreamPack(r, acc, mode, key)} } : TRUE)

readStreamEntries(r, acc, mode, key) ==
    (CHOOSE the \in {
        IF lpCount.err # "" THEN [r |-> lpCount.r, acc |-> acc, err |-> lpCount.err]
        ELSE readStreamPacks(lpCount.r, acc, mode, key, 0, UIntOf(lpCount.val))
      : lpCount \in {readLen(r)} } : TRUE)

\* the zero value a Go map lookup yields for a missing key
ZeroPendingEntry ==
    [Entry |-> [ID |-> [Millis |-> Zero64, Seq |-> Zero64], Value |-> <<>>],
     DeliveryTime |-> Zero64, DeliveryCount |-> Zero64]

MapGet(m, k, zero) == IF k \in DOMAIN m THEN m[k] ELSE zero

\* the IDs of the pending entries of a group, consumer by consumer
GroupPendingIDs(group) ==
    UNION {{group.Consumers[c].PendingEntries[p].Entry.ID :
                p \in DOMAIN group.Consumers[c].PendingEntries} :
           c \in DOMAIN group.Consumers}

\* the group with pe.Entry.Value = pendingEntries[pe.Entry.ID] in every
\* pending entry
WithPendingValues(group, pending) ==
    [group EXCEPT !.Consumers =
        [c \in DOMAIN group.Consumers |->
            [group.Consumers[c] EXCEPT !.PendingEntries =
                [p \in DOMAIN group.Consumers[c].PendingEntries |->
                    [group.Consumers[c].PendingEntries[p] EXCEPT
                        !.Entry.Value =
                            MapGet(pending,
                                   group.Consumers[c].PendingEntries[p].Entry.ID,
                                   NilValue).v]]]]]

RECURSIVE RegisterPending(_, _)
RegisterPending(pending, ids) ==
    IF ids = {} THEN pending
    ELSE LET id == CHOOSE x \in ids : TRUE
         IN  RegisterPending(MapPut(pending, id, NilValue), ids \ {id})

\* the group callbacks: the closure of the first pass, which registers the
\* pending IDs, and the closure of the second pass, which fills in the
\* values and calls groupCB of the caller
streamGroupCB(acc, mode, key, at, group) ==
    IF mode = "collect"
    THEN [acc |-> [acc EXCEPT !.pending =
                      RegisterPending(acc.pending, GroupPendingIDs(group))],
          err |-> ""]
    ELSE IF \E id \in GroupPendingIDs(group) :
                MapGet(acc.pending, id, NilValue).isNil
    THEN [acc |-> acc,
          err |-> "illegal state: an entry is in PEL but there is no corresponding entry in stream"]
    ELSE (CHOOSE the \in {
             [acc |-> [acc EXCEPT !.hs = c.hs], err |-> c.err]
           : c \in {Invoke(acc.hs, at, "StreamGroup", key, <<>>,
                           WithPendingValues(group, acc.pending), TRUE)} } : TRUE)

RECURSIVE readGlobalPEL(_, _, _, _)
readGlobalPEL(r, j, n, pendingEntries) ==
    IF ~(j < n) THEN [r |-> r, err |-> "", val |-> pendingEntries]
    ELSE
    LET stop(x) == [r |-> x.r, err |-> x.err, val |-> ZeroPendingEntry]
        \* one entry of the list
        entry ==
            (CHOOSE the \in {
                IF entryIDMillis.err # "" THEN stop(entryIDMillis)
                ELSE
            (CHOOSE the \in {
                IF entryIDSeq.err # "" THEN stop(entryIDSeq)
                ELSE
            (CHOOSE the \in {
                IF deliveryTime.err # "" THEN stop(deliveryTime)
                ELSE
            (CHOOSE the \in {
                IF deliveryCount.err # "" THEN stop(deliveryCount)
                ELSE [r |-> deliveryCount.r, err |-> "",
                      val |-> [Entry |-> [ID |-> [Millis |-> entryIDMillis.val,
                                                  Seq |-> entryIDSeq.val],
                                          Value |-> <<>>],
                               DeliveryTime |-> deliveryTime.val,
                               DeliveryCount |-> deliveryCount.val]]
              : deliveryCount \in {readLen(deliveryTime.r)} } : TRUE)
              : deliveryTime \in {readUint64(entryIDSeq.r)} } : TRUE)
              : entryIDSeq \in {readUint64BE(entryIDMillis.r)} } : TRUE)
              : entryIDMillis \in {readUint64BE(r)} } : TRUE)
    IN  (CHOOSE the \in {
            IF e.err # "" THEN [r |-> e.r, err |-> e.err, val |-> pendingEntries]
            ELSE readGlobalPEL(e.r, j + 1, n,
                               MapPut(pendingEntries, e.val.Entry.ID, e.val))
          : e \in {entry} } : TRUE)

RECURSIVE readConsumerPEL(_, _, _, _, _)
readConsumerPEL(r, k, n, pendingEntries, consumerPEL) ==
    IF ~(k < n) THEN [r |-> r, err |-> "", val |-> consumerPEL]
    ELSE
    LET \* the ID of one entry of the list
        entryID ==
            (CHOOSE the \in {
                IF entryIDMillis.err # ""
                THEN [r |-> entryIDMillis.r, err |-> entryIDMillis.err,
                      val |-> ZeroPendingEntry.Entry.ID]
                ELSE
            (CHOOSE the \in {
                IF entryIDSeq.err # ""
                THEN [r |-> entryIDSeq.r, err |-> entryIDSeq.err,
                      val |-> ZeroPendingEntry.Entry.ID]
                ELSE [r |-> entryIDSeq.r, err |-> "",
                      val |-> [Millis |-> entryIDMillis.val,
                               Seq |-> entryIDSeq.val]]
              : entryIDSeq \in {readUint64BE(entryIDMillis.r)} } : TRUE)
              : entryIDMillis \in {readUint64BE(r)} } : TRUE)
    IN  (CHOOSE the \in {
            IF id.err # "" THEN [r |-> id.r, err |-> id.err, val |-> consumerPEL]
            ELSE readConsumerPEL(id.r, k + 1, n, pendingEntries,
                     Append(consumerPEL,
                            MapGet(pendingEntries, id.val, ZeroPendingEntry)))
          : id \in {entryID} } : TRUE)

RECURSIVE readStreamConsumers(_, _, _, _, _, _)
readStreamConsumers(r, t, j, n, pendingEntries, consumers) ==
    IF ~(j < n) THEN [r |-> r, err |-> "", val |-> consumers]
    ELSE
    LET stop(x) == [r |-> x.r, err |-> x.err, val |-> <<>>]
        \* the name and the times of the consumer and the length of its list
        head ==
            (CHOOSE the \in {
                IF consumerName.err # "" THEN stop(consumerName)
                ELSE
            (CHOOSE the \in {
                IF seenTime.err # "" THEN stop(seenTime)
                ELSE
            (CHOOSE the \in {
                IF activeTime.err # "" THEN stop(activeTime)
                ELSE
            (CHOOSE the \in {
                IF pelLen.err # "" THEN stop(pelLen)
                ELSE [r |-> pelLen.r, err |-> "",
                      val |-> [Name |-> consumerName.val,
                               SeenTime |-> seenTime.val,
                               ActiveTime |-> activeTime.val,
                               pelLen |-> UIntOf(pelLen.val)]]
              : pelLen \in {readLen(activeTime.r)} } : TRUE)
              : activeTime \in {IF t >= TypeStreamListpacks3
                                THEN readUint64(seenTime.r)
                                ELSE [r |-> seenTime.r, err |-> "",
                                      val |-> Zero64]} } : TRUE)
              : seenTime \in {readUint64(consumerName.r)} } : TRUE)
              : consumerName \in {ReadString(r)} } : TRUE)
    IN  (CHOOSE the \in {
            IF h.err # "" THEN [r |-> h.r, err |-> h.err, val |-> consumers]
            ELSE
        (CHOOSE the \in {
            IF pel.err # "" THEN [r |-> pel.r, err |-> pel.err, val |-> consumers]
            ELSE readStreamConsumers(pel.r, t, j + 1, n, pendingEntries,
                     Append(consumers,
                         [Name |-> h.val.Name, SeenTime |-> h.val.SeenTime,
                          ActiveTime |-> h.val.ActiveTime,
                          PendingEntries |-> pel.val]))
          : pel \in {readConsumerPEL(h.r, 0, h.val.pelLen, pendingEntries,
                                     <<>>)} } : TRUE)
          : h \in {head} } : TRUE)

RECURSIVE readStreamGroups(_, _, _, _, _, _, _)
readStreamGroups(r, t, acc, mode, key, i, count) ==
    IF ~(i < count) THEN [r |-> r, acc |-> acc, err |-> ""]
    ELSE
    LET stop(x) == [r |-> x.r, err |-> x.err, val |-> <<>>]
        \* the name and the numbers of the group and the length of its list
        head ==
            (CHOOSE the \in {
                IF name.err # "" THEN stop(name)
                ELSE
            (CHOOSE the \in {
                IF lastIDMillis.err # "" THEN stop(lastIDMillis)
                ELSE
            (CHOOSE the \in {
                IF lastIDSeq.err # "" THEN stop(lastIDSeq)
                ELSE
            (CHOOSE the \in {
                IF entriesRead.err # "" THEN stop(entriesRead)
                ELSE
            (CHOOSE the \in {
                IF globalPELLen.err # "" THEN stop(globalPELLen)
                ELSE [r |-> globalPELLen.r, err |-> "",
                      val |-> [Name |-> name.val,
                               LastID |-> [Millis |-> lastIDMillis.val,
                                           Seq |-> lastIDSeq.val],
                               EntriesRead |-> entriesRead.val,
                               globalPELLen |-> UIntOf(globalPELLen.val)]]
              : globalPELLen \in {readLen(entriesRead.r)} } : TRUE)
              : entriesRead \in {IF t >= TypeStreamListpacks2
                                 THEN readLen(lastIDSeq.r)
                                 ELSE [r |-> lastIDSeq.r, err |-> "",
                                       val |-> Zero64]} } : TRUE)
              : lastIDSeq \in {readLen(lastIDMillis.r)} } : TRUE)
              : lastIDMillis \in {readLen(name.r)} } : TRUE)
              : name \in {ReadString(r)} } : TRUE)
        \* the group with its consumers
        group ==
            (CHOOSE the \in {
                IF h.err # "" THEN h
                ELSE
            (CHOOSE the \in {
                IF pendingEntries.err # "" THEN stop(pendingEntries)
                ELSE
            (CHOOSE the \in {
                IF consumerCount.err # "" THEN stop(consumerCount)
                ELSE
            (CHOOSE the \in {
                IF consumers.err # "" THEN stop(consumers)
                ELSE [r |-> consumers.r, err |-> "",
                      val |-> [Name |-> h.val.Name, LastID |-> h.val.LastID,
                               EntriesRead |-> h.val.EntriesRead,
                               Consumers |-> consumers.val]]
              : consumers \in {readStreamConsumers(consumerCount.r, t, 0,
                                   UIntOf(consumerCount.val),
                                   pendingEntries.val, <<>>)} } : TRUE)
              : consumerCount \in {readLen(pendingEntries.r)} } : TRUE)
              : pendingEntries \in {readGlobalPEL(h.r, 0, h.val.globalPELLen,
                                                  <<>>)} } : TRUE)
              : h \in {head} } : TRUE)
    IN  (CHOOSE the \in {
            IF g.err # "" THEN [r |-> g.r, acc |-> acc, err |-> g.err]
            ELSE
        (CHOOSE the \in {
            readStreamGroups(g.r, t, called, mode, key, i + 1, count)
          : called \in {streamGroupCB(acc, mode, key, Consumed(g.r),
                                      g.val).acc} } : TRUE)
          : g \in {group} } : TRUE)

readStreamConsumerGroups(r, t, acc, mode, key) ==
    (CHOOSE the \in {
        IF count.err # "" THEN [r |-> count.r, acc |-> acc, err |-> count.err]
        ELSE readStreamGroups(count.r, t, acc, mode, key, 0, UIntOf(count.val))
      : count \in {readLen(r)} } : TRUE)

\* n length-encoded integers whose values are not used
RECURSIVE readLens(_, _)
readLens(r, n) ==
    IF n = 0 THEN [r |-> r, err |-> ""]
    ELSE (CHOOSE the \in {
             IF l.err # "" THEN [r |-> l.r, err |-> l.err]
             ELSE readLens(l.r, n - 1)
           : l \in {readLen(r)} } : TRUE)

\* the panic of a method call on the nil view that forwardOnlyBuffer.View
\* returns
errNilView ==
    "panic: runtime error: invalid memory address or nil pointer dereference"

\* readStreamListpacks0: r is the reader after the call, views the readers
\* of the entries view and of the groups view after the call.  Over a
\* forward-only buffer View returns a nil view and no error, and the
\* deferred entriesView.Close() panics
readStreamListpacks0(r, hs, t, key) ==
    IF r.kind = "forwardOnly"
    THEN [r |-> r, hs |-> hs, err |-> errNilView, val |-> Zero64,
          entriesView |-> r, groupsView |-> r]
    ELSE
    (CHOOSE the \in {
    (CHOOSE the \in {
    (CHOOSE the \in {
    (CHOOSE the \in {
    LET res(rr, a, e, ev, gv) ==
            [r |-> rr, hs |-> a.hs, err |-> e,
             val |-> IF e = "" THEN U64(a.read) ELSE Zero64,
             entriesView |-> ev, groupsView |-> gv] IN
        IF first.err # ""
        THEN res(first.r, first.acc, first.err, entriesView, entriesView)
        ELSE IF meta.err # ""
        THEN res(meta.r, first.acc, meta.err, entriesView, entriesView)
        ELSE
    (CHOOSE the \in {
        IF firstGroups.err # ""
   THEN res(firstGroups.r, firstGroups.acc, firstGroups.err, entriesView,
            groupsView)
        ELSE
    (CHOOSE the \in {
        IF second.err # ""
   THEN res(firstGroups.r, second.acc, second.err, second.r, groupsView)
        ELSE
    (CHOOSE the \in {
        res(firstGroups.r, secondGroups.acc, secondGroups.err, second.r,
            secondGroups.r)
      : secondGroups \in {readStreamConsumerGroups(groupsView, t, second.acc,
                                                   "deliver", key)} } : TRUE)
      : second \in {readStreamEntries(entriesView, firstGroups.acc, "collect",
                                      key)} } : TRUE)
      : firstGroups \in {readStreamConsumerGroups(meta.r, t, first.acc,
                                                  "collect", key)} } : TRUE)
      : groupsView \in {View(meta.r, Pos(meta.r))} } : TRUE)
      : meta \in {readLens(first.r, IF t >= TypeStreamListpacks2 THEN 8 ELSE 3)} } : TRUE)
      : first \in {readStreamEntries(r, newAcc(hs), "deliver", key)} } : TRUE)
      : entriesView \in {View(r, Pos(r))} } : TRUE)

(***************************************************************************)
(* reader.go: ReadSetIntset and ReadHashListpackEx.                        *)
(***************************************************************************)
errIntsetEncoding == "unexpected intset encoding"

\* the loop of ReadSetIntset over the reader of the intset; at is where the
\* reader of the value stands
RECURSIVE ReadSetIntsetLoop(_, _, _, _, _, _, _)
ReadSetIntsetLoop(reader, hs, key, at, encoding, i, length) ==
    IF ~(i < length) THEN [hs |-> hs, err |-> ""]
    ELSE (CHOOSE the \in {
             IF elem.err # "" THEN [hs |-> hs, err |-> elem.err]
             ELSE
         (CHOOSE the \in {
             IF c.err # "" THEN [hs |-> c.hs, err |-> c.err]
             ELSE ReadSetIntsetLoop(elem.r, c.hs, key, at, encoding, i + 1,
                                    length)
           : c \in {Invoke(hs, at, "SetEntry", key, <<elem.val>>, <<>>,
                           TRUE)} } : TRUE)
           : elem \in {IF encoding = U64(intsetEncInt16)
                       THEN (CHOOSE the \in {
                                [r |-> e.r, err |-> e.err,
                                 val |-> Itoa(SignedLE(<<e.val[8], e.val[7]>>))]
                              : e \in {readUint16(reader)} } : TRUE)
                       ELSE IF encoding = U64(intsetEncInt32)
                       THEN (CHOOSE the \in {
                                [r |-> e.r, err |-> e.err,
                                 val |-> Itoa(SignedLE(<<e.val[8], e.val[7],
                                                         e.val[6], e.val[5]>>))]
                              : e \in {readUint32(reader)} } : TRUE)
                       ELSE IF encoding = U64(intsetEncInt64)
                       THEN (CHOOSE the \in {
                                [r |-> e.r, err |-> e.err, val |-> Itoa64(e.val)]
                              : e \in {readUint64(reader)} } : TRUE)
                       ELSE [r |-> reader, err |-> errIntsetEncoding,
                             val |-> <<>>]} } : TRUE)

ReadSetIntset(r, hs, key) ==
    LET res(rr, h, e) == [r |-> rr, hs |-> h, err |-> e]
    IN  (CHOOSE the \in {
            IF intset.err # "" THEN res(intset.r, hs, intset.err)
            ELSE
        (CHOOSE the \in {
            IF encoding.err # "" THEN res(intset.r, hs, encoding.err)
            ELSE
        (CHOOSE the \in {
            IF length.err # "" THEN res(intset.r, hs, length.err)
            ELSE
        (CHOOSE the \in {
            res(intset.r, loop.hs, loop.err)
          : loop \in {ReadSetIntsetLoop(length.r, hs, key, Consumed(intset.r),
                                        encoding.val, 0, IntOf(length.val))} } : TRUE)
          : length \in {readUint32(encoding.r)} } : TRUE)
          : encoding \in {readUint32(
                              [newValueReader(intset.val) EXCEPT
                                 !.maxLz77StrLen = r.maxLz77StrLen])} } : TRUE)
          : intset \in {ReadString(r)} } : TRUE)

\* strconv.ParseInt(s, 10, 64)
ParseInt(s) ==
    (CHOOSE the \in {
        [val |-> a.val,
         err |-> IF a.err = "" THEN ""
                 ELSE IF a.err = "strconv.Atoi: invalid syntax"
                 THEN "strconv.ParseInt: invalid syntax"
                 ELSE "strconv.ParseInt: value out of range"]
      : a \in {Atoi64(s)} } : TRUE)

\* the loop of ReadHashListpackEx: for i < limit, i += 3, three entries and
\* one call of cb with time.UnixMilli(expVal), kept as the 64 bits of expVal
RECURSIVE ReadHashListpackExLoop(_, _, _, _, _, _)
ReadHashListpackExLoop(reader, hs, key, at, i, limit) ==
    IF ~(i < limit)
    THEN [reader |-> reader, hs |-> hs, err |-> "", end |-> FALSE]
    ELSE LET stop(rr, h, e) ==
                 [reader |-> rr, hs |-> h, err |-> e, end |-> FALSE]
             got(rr, e, end, args) ==
                 [r |-> rr, err |-> e, end |-> end, args |-> args]
             \* the field, the value and the expiry of the turn
             triple ==
                 (CHOOSE the \in {
                     IF field.err = errLPUnexpectedEnd /\ limit = mathMaxInt
                     THEN got(field.r, "", TRUE, <<>>)
                     ELSE IF field.err # ""
                     THEN got(field.r, field.err, FALSE, <<>>)
                     ELSE
                 (CHOOSE the \in {
                     IF value.err # "" THEN got(value.r, value.err, FALSE, <<>>)
                     ELSE
                 (CHOOSE the \in {
                     IF expStr.err # ""
                     THEN got(expStr.r, expStr.err, FALSE, <<>>)
                     ELSE
                 (CHOOSE the \in {
                     got(expStr.r, expVal.err, FALSE,
                         <<field.val, value.val, expVal.val>>)
                   : expVal \in {ParseInt(expStr.val)} } : TRUE)
                   : expStr \in {readListpackEntry(value.r)} } : TRUE)
                   : value \in {readListpackEntry(field.r)} } : TRUE)
                   : field \in {readListpackEntry(reader)} } : TRUE)
         IN  (CHOOSE the \in {
                 IF t.end
                 THEN [reader |-> t.r, hs |-> hs, err |-> "", end |-> TRUE]
                 ELSE IF t.err # "" THEN stop(t.r, hs, t.err)
                 ELSE
             (CHOOSE the \in {
                 IF c.err # "" THEN stop(t.r, c.hs, c.err)
                 ELSE ReadHashListpackExLoop(t.r, c.hs, key, at, i + 3, limit)
               : c \in {Invoke(hs, at, "HashWithExpEntry", key, t.args, <<>>,
                               TRUE)} } : TRUE)
               : t \in {triple} } : TRUE)

ReadHashListpackEx(r, hs, key) ==
    LET res(rr, h, e) == [r |-> rr, hs |-> h, err |-> e]
    IN  (CHOOSE the \in {
            IF t.err # "" THEN res(t.r, hs, t.err)
            ELSE
        (CHOOSE the \in {
            IF listpack.err # "" THEN res(listpack.r, hs, listpack.err)
            ELSE
        (CHOOSE the \in {
            IF s.err # "" THEN res(listpack.r, hs, s.err)
            ELSE
        (CHOOSE the \in {
            IF lplen.err # "" THEN res(listpack.r, hs, lplen.err)
            ELSE
        (CHOOSE the \in {
            IF loop.err # "" THEN res(listpack.r, loop.hs, loop.err)
            ELSE IF loop.end THEN res(listpack.r, loop.hs, "")
            ELSE
        (CHOOSE the \in {
            IF lpend.err # "" THEN res(listpack.r, loop.hs, lpend.err)
            ELSE IF lpend.val # listpackEnd
            THEN res(listpack.r, loop.hs, errLPUnexpectedEnd)
            ELSE res(listpack.r, loop.hs, "")
          : lpend \in {readUint8(loop.reader)} } : TRUE)
          : loop \in {ReadHashListpackExLoop(
                          lplen.r, hs, key, Consumed(listpack.r), 0,
                          lengthLimit(IntOf(lplen.val), listpackLenBig))} } : TRUE)
          : lplen \in {readUint16(s.r)} } : TRUE)
          : s \in {skip([newValueReader(listpack.val) EXCEPT
                            !.maxLz77StrLen = r.maxLz77StrLen], 4)} } : TRUE)
          : listpack \in {ReadString(t.r)} } : TRUE)
          : t \in {readUint64(r)} } : TRUE)

(***************************************************************************)
(* reader.go: valueReader.readObject and readValue.                        *)
(***************************************************************************)

errUnknownType == "unknown RDB object type"

readObject(r, hs, key, t) ==
    LET res(x, h, e) == [r |-> x, hs |-> h, err |-> e]
        \* a decoder that returns no count
        errOnly(x) == res(x.r, x.hs, x.err)
        \* handler.ListEntryHandler(key) and the like: the handler is asked
        \* for the callback of the elements of key
        factory(name) ==
            Invoke(hs, Consumed(r), name, key, <<>>, <<>>, FALSE).hs
        ending(x, name) ==
            IF x.err # "" THEN res(x.r, x.hs, x.err)
            ELSE res(x.r, Invoke(x.hs, Consumed(x.r), name, key, <<x.val>>,
                                 <<>>, FALSE).hs, "")
    IN  CASE t = TypeString ->
                 (CHOOSE the \in {
                 IF value.err # "" THEN res(value.r, hs, value.err)
                 ELSE
             (CHOOSE the \in {
                 res(value.r, c.hs, c.err)
               : c \in {Invoke(hs, Consumed(value.r), "String", key,
                               <<value.val>>, <<>>, TRUE)} } : TRUE)
               : value \in {ReadString(r)} } : TRUE)
          [] t = TypeList ->
                 ending(ReadList(r, factory("ListEntryHandler"), key),
                    "ListEnding")
          [] t = TypeSet ->
                 ReadSet(r, factory("SetEntryHandler"), key)
          [] t = TypeHash ->
                 ReadHash(r, factory("HashEntryHandler"), key)
          [] t = TypeZset2 ->
                 ending(ReadZset2(r, factory("ZsetEntryHandler"), key),
                    "ZsetEnding")
          [] t = TypeModule2 ->
                 (CHOOSE the \in {
                 IF m.err # "" THEN res(m.r, hs, m.err)
                 ELSE
             (CHOOSE the \in {
                 res(m.r, c.hs, c.err)
               : c \in {Invoke(hs, Consumed(m.r), "Module", key,
                               <<m.val, m.marker>>, <<>>, TRUE)} } : TRUE)
               : m \in {ReadModule2(r, AllowPartialRead(hs))} } : TRUE)
          [] t \in {TypeStreamListpacks, TypeStreamListpacks2,
                TypeStreamListpacks3} ->
                 ending(readStreamListpacks0(r,
                        Invoke(factory("StreamEntryHandler"), Consumed(r),
                               "StreamGroupHandler", key, <<>>, <<>>,
                               FALSE).hs, t, key), "StreamEnding")
          [] t = TypeHashMetadata ->
                 ReadHashMetadata(r, factory("HashWithExpEntryHandler"), key)
          [] t = TypeZset ->
                 ending(ReadZset(r, factory("ZsetEntryHandler"), key),
                    "ZsetEnding")
          [] t = TypeHashZipmap ->
                 ReadHashZipmap(r, factory("HashEntryHandler"), key)
          [] t = TypeListZiplist ->
                 ending(ReadListZiplist(r, factory("ListEntryHandler"), key),
                    "ListEnding")
          [] t = TypeZsetZiplist ->
                 ending(ReadZsetZiplist(r, factory("ZsetEntryHandler"), key),
                    "ZsetEnding")
          [] t = TypeHashZiplist ->
                 errOnly(ReadHashZiplist(r, factory("HashEntryHandler"), key))
          [] t = TypeListQuicklist ->
                 ending(ReadListQuicklist(r, factory("ListEntryHandler"), key),
                    "ListEnding")
          [] t = TypeHashListpack ->
                 errOnly(ReadHashListpack(r, factory("HashEntryHandler"), key))
          [] t = TypeZsetListpack ->
                 ending(ReadZsetListpack(r, factory("ZsetEntryHandler"), key),
                    "ZsetEnding")
          [] t = TypeListQuicklist2 ->
                 ending(ReadListQuicklist2(r, factory("ListEntryHandler"), key),
                    "ListEnding")
          [] t = TypeSetListpack ->
                 errOnly(ReadSetListpack(r, factory("SetEntryHandler"), key))
          [] t = TypeSetIntset ->
                 ReadSetIntset(r, factory("SetEntryHandler"), key)
          [] t = TypeHashListpackEx ->
                 ReadHashListpackEx(r, factory("HashWithExpEntryHandler"), key)
          [] OTHER ->
                 res(r, hs, errUnknownType)

readValue(key, payload, hs, maxLz77StrLen) ==
    (CHOOSE the \in {
    (CHOOSE the \in {
        IF t.err # "" THEN [r |-> t.r, hs |-> hs, err |-> t.err]
        ELSE readObject(t.r, hs, key, t.val)
      : t \in {ReadType(reader)} } : TRUE)
      : reader \in {[newValueReader(payload)
                        EXCEPT !.maxLz77StrLen = maxLz77StrLen]} } : TRUE)

ReadValue(key, payload, hs) == readValue(key, payload, hs, 0)

(***************************************************************************)
(* part_012: readObject(reader, handler, t, hasExpireTime, expireTime),    *)
(* the record reader of ReadFile.                                          *)
(***************************************************************************)
ReadFile_readObject(r, hs, t, hasExpireTime, expireTime) ==
    (CHOOSE the \in {
        IF key.err # "" THEN [r |-> key.r, hs |-> hs, err |-> key.err]
        ELSE
    (CHOOSE the \in {
        IF o.err # "" THEN o
        ELSE
    (CHOOSE the \in {
        IF hasExpireTime THEN [r |-> o.r, hs |-> c.hs, err |-> c.err]
        ELSE o
      : c \in {Invoke(o.hs, Consumed(o.r), "ExpireTime", key.val, <<expireTime>>,
                      <<>>, TRUE)} } : TRUE)
      : o \in {readObject(key.r, hs, key.val, t)} } : TRUE)
      : key \in {ReadString(r)} } : TRUE)

\* one <type><key><value> record, as the default branch of the op-code loop
\* of ReadFile reads it
readRecord(bytes, hs) ==
    LET reader == newValueReader(bytes)
    IN  (CHOOSE the \in {
            IF t.err # "" THEN [r |-> t.r, hs |-> hs, err |-> t.err]
            ELSE ReadFile_readObject(t.r, hs, t.val, FALSE, Zero64)
          : t \in {ReadType(reader)} } : TRUE)

(***************************************************************************)
(* writer.go: Writer.  buf holds the bytes written so far (the Go buffer   *)
(* is a zero-filled array that grows on demand), pos is the write          *)
(* position, err the error returned by the last write ("" for nil).        *)
(***************************************************************************)
writerLimit == 1048576

errWriteLimit == "exceeded write buffer limit"

NewWriter == [buf |-> <<>>, pos |-> 0, err |-> ""]

GetBuffer(w) == SubSeq(w.buf, 1, w.pos)

\* copy(buf[pos:pos+n], value)
Overwrite(buf, pos, value) ==
    SubSeq(buf, 1, pos) \o value \o SubSeq(buf, pos + Len(value) + 1, Len(buf))

\* a write after a failed write does not happen: the callers return the
\* error
write(w, value) ==
    IF w.err # "" THEN w
    ELSE IF w.pos + Len(value) > writerLimit
    THEN [w EXCEPT !.err = errWriteLimit]
    ELSE [buf |-> Overwrite(w.buf, w.pos, value), pos |-> w.pos + Len(value),
          err |-> ""]

\* binary.LittleEndian.PutUint16 / PutUint32 of uint16(n) / uint32(n)
LE16(n) == <<n % 256, (n \div 256) % 256>>

LE32(n) ==
    <<n % 256, (n \div 256) % 256, (n \div 65536) % 256,
      (n \div 16777216) % 256>>

writeUint8(w, value) == write(w, <<value>>)

writeUint16(w, value) == write(w, LE16(value))

writeUint32(w, value) == write(w, LE32(value))

writeUint64(w, value) == write(w, Swap64(value))

writeUint64BE(w, value) == write(w, value)

len6BitMax == <<0, 0, 0, 0, 0, 0, 0, 63>>

len14BitMax == <<0, 0, 0, 0, 0, 0, 63, 255>>

len32BitMax == <<0, 0, 0, 0, 255, 255, 255, 255>>

LessEq64(a, b) == a = b \/ Less64(a, b)

writeLen(w, length) ==
    IF LessEq64(length, len6BitMax)
    THEN writeUint8(w, length[8] + len6Bit)
    ELSE IF LessEq64(length, len14BitMax)
    THEN write(w, <<length[7] + len14Bit, length[8]>>)
    ELSE IF LessEq64(length, len32BitMax)
    THEN write(writeUint8(w, len32Bit), SubSeq(length, 5, 8))
    ELSE writeUint64BE(writeUint8(w, len64Bit), length)

writeLenUint64(w, length) == writeUint64BE(writeUint8(w, len64Bit), length)

WriteString(w, str) == write(writeLen(w, U64(Len(str))), str)

\* the <backlen> bytes of a listpack entry
backLenBytes(backLen) ==
    IF backLen <= 127 THEN <<backLen>>
    ELSE IF backLen < 16383
    THEN <<(backLen \div 128) % 256, (backLen % 128) + 128>>
    ELSE IF backLen < 2097151
    THEN <<(backLen \div 16384) % 256, ((backLen \div 128) % 128) + 128,
           (backLen % 128) + 128>>
    ELSE IF backLen < 268435455
    THEN <<(backLen \div 2097152) % 256, ((backLen \div 16384) % 128) + 128,
           ((backLen \div 128) % 128) + 128, (backLen % 128) + 128>>
    ELSE <<(backLen \div 268435456) % 256,
           ((backLen \div 2097152) % 128) + 128,
           ((backLen \div 16384) % 128) + 128,
           ((backLen \div 128) % 128) + 128, (backLen % 128) + 128>>

\* returns the writer and the size of the listpack entry
writeListpackEntry(w, value) ==
    LET w1 == writeUint8(w, listpackEnc32bitStrLen)
        w2 == writeUint32(w1, Len(value))
        w3 == write(w2, value)
    IN  (CHOOSE the \in {
            [w |-> write(w3, bl), size |-> 1 + 4 + Len(value) + Len(bl)]
          : bl \in {backLenBytes(5 + Len(value))} } : TRUE)

\* value is an int64 between -2^31 and 2^31 - 1, so that the 64-bit
\* encoding is not chosen
writeListpackIntEntry(w, value) ==
    LET small == -32768 <= value /\ value <= 32767
        encoding == IF small THEN listpackEncInt16 ELSE listpackEncInt32
        encodingLen == IF small THEN 2 ELSE 4
    IN  (CHOOSE the \in {
        (CHOOSE the \in {
            [w |-> writeUint8(w2, 1 + encodingLen), size |-> 1 + encodingLen + 1]
          : w2 \in {IF small THEN writeUint16(w1, value % 65536)
                    ELSE writeUint32(w1, value)} } : TRUE)
          : w1 \in {writeUint8(w, encoding)} } : TRUE)

(***************************************************************************)
(* StreamWriter (WriteEntries, WriteMetadata, WriteConsumerGroups) and     *)
(* Writer.WriteStream.  st carries the writer with lpBytes and lpCount.    *)
(***************************************************************************)
lpInt(st, value) ==
    IF st.w.err # "" THEN st
    ELSE (CHOOSE the \in {
             IF e.w.err # "" THEN [st EXCEPT !.w = e.w]
             ELSE [w |-> e.w, lpBytes |-> st.lpBytes + e.size,
                   lpCount |-> st.lpCount + 1]
           : e \in {writeListpackIntEntry(st.w, value)} } : TRUE)

\* for i := from; i < len(entry.Value); i += 2
RECURSIVE lpStrs(_, _, _)
lpStrs(st, value, i) ==
    IF st.w.err # "" \/ ~(i < Len(value)) THEN st
    ELSE (CHOOSE the \in {
             IF e.w.err # "" THEN [st EXCEPT !.w = e.w]
             ELSE lpStrs([w |-> e.w, lpBytes |-> st.lpBytes + e.size,
                          lpCount |-> st.lpCount + 1], value, i + 2)
           : e \in {writeListpackEntry(st.w, value[i + 1])} } : TRUE)

\* the body of the loop of WriteEntries; the errors of the first two writes
\* are not looked at
StreamWriter_WriteEntry(w, entry) ==
    (CHOOSE the \in {
    (CHOOSE the \in {
    (CHOOSE the \in {
        IF w3.err # "" THEN w3
        ELSE
    (CHOOSE the \in {
    (CHOOSE the \in {
        IF s1.w.err # "" THEN s1.w
        ELSE
    (CHOOSE the \in {
        IF s2.w.err # "" THEN s2.w
        ELSE
    (CHOOSE the \in {
        IF s3.w.err # "" THEN s3.w
        ELSE
    (CHOOSE the \in {
        IF s4.w.err # "" THEN s4.w
        ELSE
    (CHOOSE the \in {
        IF s5.w.err # "" THEN s5.w
        ELSE
    (CHOOSE the \in {
        IF s6.w.err # "" THEN s6.w
        ELSE
    (CHOOSE the \in {
        IF s7.w.err # "" THEN s7.w
        ELSE
    (CHOOSE the \in {
        IF s8.w.err # "" THEN s8.w
        ELSE
    (CHOOSE the \in {
        IF s9.w.err # "" THEN s9.w
        ELSE
    (CHOOSE the \in {
        IF s10.w.err # "" THEN s10.w
        ELSE
    (CHOOSE the \in {
        IF w4.err # "" THEN w4
        ELSE
    (CHOOSE the \in {
    (CHOOSE the \in {
    (CHOOSE the \in {
    (CHOOSE the \in {
        IF w5.err # "" THEN w5
        ELSE
    (CHOOSE the \in {
    (CHOOSE the \in {
        IF w6.err # "" THEN w6
        ELSE
    (CHOOSE the \in {
    (CHOOSE the \in {
        IF w7.err # "" THEN w7
        ELSE [w7 EXCEPT !.pos = pos]
      : w7 \in {writeLenUint64([w6 EXCEPT !.pos = strLenPos], U64(lpBytes))} } : TRUE)
      : strLenPos \in {w1.pos} } : TRUE)
      : w6 \in {writeUint16(w5, lpCount)} } : TRUE)
      : lpCount \in {IF s10.lpCount >= listpackLenBig THEN listpackLenBig
                     ELSE s10.lpCount} } : TRUE)
      : w5 \in {writeUint32([w4 EXCEPT !.pos = lpBytesPos], lpBytes)} } : TRUE)
      : pos \in {w4.pos} } : TRUE)
      : lpBytes \in {s10.lpBytes + 4 + 2 + 1} } : TRUE)
      : lpBytesPos \in {w2.pos} } : TRUE)
      : w4 \in {writeUint8(s10.w, listpackEnd)} } : TRUE)
      : s10 \in {lpInt(s9, 3 + (Len(entry.Value) \div 2))} } : TRUE)
      : s9 \in {lpStrs(s8, entry.Value, 1)} } : TRUE)
      : s8 \in {lpInt(s7, 0)} } : TRUE)
      : s7 \in {lpInt(s6, 0)} } : TRUE)
      : s6 \in {lpInt(s5, 2)} } : TRUE)
      : s5 \in {lpInt(s4, 0)} } : TRUE)
      : s4 \in {lpStrs(s3, entry.Value, 0)} } : TRUE)
      : s3 \in {lpInt(s2, Len(entry.Value) \div 2)} } : TRUE)
      : s2 \in {lpInt(s1, 0)} } : TRUE)
      : s1 \in {lpInt(s0, 1)} } : TRUE)
      : s0 \in {[w |-> w3, lpBytes |-> 0, lpCount |-> 0]} } : TRUE)
      : w3 \in {writeUint16(writeUint32(w2, 0), 0)} } : TRUE)
      : w2 \in {[writeLenUint64(w1, Zero64) EXCEPT !.err = ""]} } : TRUE)
      : w1 \in {[WriteString(w, entry.ID.Millis \o entry.ID.Seq) EXCEPT !.err = ""]} } : TRUE)

RECURSIVE StreamWriter_WriteEntriesLoop(_, _, _)
StreamWriter_WriteEntriesLoop(w, entries, i) ==
    IF w.err # "" \/ i > Len(entries) THEN w
    ELSE StreamWriter_WriteEntriesLoop(StreamWriter_WriteEntry(w, entries[i]),
                                       entries, i + 1)

StreamWriter_WriteEntries(w, entries) ==
    StreamWriter_WriteEntriesLoop(writeLen(w, U64(Len(entries))), entries, 1)

StreamWriter_WriteMetadata(w, length, lastID) ==
    (CHOOSE the \in {
        IF w1.err # "" THEN w1
        ELSE
    (CHOOSE the \in {
        IF w2.err # "" THEN w2
        ELSE writeLen(w2, lastID.Seq)
      : w2 \in {writeLen(w1, lastID.Millis)} } : TRUE)
      : w1 \in {writeLen(w, length)} } : TRUE)

\* globalPEL[pe.Entry.ID] = pe for the pending entries of one consumer
RECURSIVE globalPELOfConsumer(_, _, _)
globalPELOfConsumer(globalPEL, pes, p) ==
    IF p > Len(pes) THEN globalPEL
    ELSE globalPELOfConsumer(MapPut(globalPEL, pes[p].Entry.ID, pes[p]),
                             pes, p + 1)

RECURSIVE globalPELOf(_, _, _)
globalPELOf(globalPEL, consumers, c) ==
    IF c > Len(consumers) THEN globalPEL
    ELSE globalPELOf(globalPELOfConsumer(globalPEL,
                         consumers[c].PendingEntries, 1), consumers, c + 1)

\* for _, pe := range globalPEL: order is the iteration order of the map,
\* a sequence of IDs in which every key occurs once.  Every range
\* statement has an order of its own
RECURSIVE StreamWriter_writeGlobalPEL(_, _, _, _)
StreamWriter_writeGlobalPEL(w, globalPEL, order, i) ==
    IF w.err # "" \/ i > Len(order) THEN w
    ELSE IF order[i] \notin DOMAIN globalPEL
    THEN StreamWriter_writeGlobalPEL(w, globalPEL, order, i + 1)
    ELSE LET pe == globalPEL[order[i]]
             w1 == writeUint64BE(w, pe.Entry.ID.Millis)
             w2 == writeUint64BE(w1, pe.Entry.ID.Seq)
         IN  (CHOOSE the \in {
                 IF w3.err # "" THEN w3
                 ELSE
             (CHOOSE the \in {
                 StreamWriter_writeGlobalPEL(w4, globalPEL, order, i + 1)
               : w4 \in {writeLen(w3, pe.DeliveryCount)} } : TRUE)
               : w3 \in {writeUint64(w2, pe.DeliveryTime)} } : TRUE)

RECURSIVE StreamWriter_writeConsumerPEL(_, _, _)
StreamWriter_writeConsumerPEL(w, pes, p) ==
    IF w.err # "" \/ p > Len(pes) THEN w
    ELSE StreamWriter_writeConsumerPEL(
             writeUint64BE(writeUint64BE(w, pes[p].Entry.ID.Millis),
                           pes[p].Entry.ID.Seq), pes, p + 1)

RECURSIVE StreamWriter_writeConsumers(_, _, _)
StreamWriter_writeConsumers(w, consumers, c) ==
    IF w.err # "" \/ c > Len(consumers) THEN w
    ELSE LET consumer == consumers[c]
         IN  (CHOOSE the \in {
                 IF w1.err # "" THEN w1
                 ELSE
             (CHOOSE the \in {
                 IF w2.err # "" THEN w2
                 ELSE
             (CHOOSE the \in {
                 IF w3.err # "" THEN w3
                 ELSE
             (CHOOSE the \in {
                 StreamWriter_writeConsumers(w4, consumers, c + 1)
               : w4 \in {StreamWriter_writeConsumerPEL(w3, consumer.PendingEntries, 1)} } : TRUE)
               : w3 \in {writeLen(w2, U64(Len(consumer.PendingEntries)))} } : TRUE)
               : w2 \in {writeUint64(w1, consumer.SeenTime)} } : TRUE)
               : w1 \in {WriteString(w, consumer.Name)} } : TRUE)

RECURSIVE StreamWriter_writeGroups(_, _, _, _)
StreamWriter_writeGroups(w, groups, orders, g) ==
    IF w.err # "" \/ g > Len(groups) THEN w
    ELSE LET group == groups[g]
         IN  (CHOOSE the \in {
                 IF w1.err # "" THEN w1
                 ELSE
             (CHOOSE the \in {
                 IF w2.err # "" THEN w2
                 ELSE
             (CHOOSE the \in {
             (CHOOSE the \in {
                 IF w3.err # "" THEN w3
                 ELSE
             (CHOOSE the \in {
                 IF w4.err # "" THEN w4
                 ELSE
             (CHOOSE the \in {
                 IF w5.err # "" THEN w5
                 ELSE
             (CHOOSE the \in {
                 StreamWriter_writeGroups(w6, groups, orders, g + 1)
               : w6 \in {StreamWriter_writeConsumers(w5, group.Consumers, 1)} } : TRUE)
               : w5 \in {writeLen(w4, U64(Len(group.Consumers)))} } : TRUE)
               : w4 \in {StreamWriter_writeGlobalPEL(w3, globalPEL, orders[g], 1)} } : TRUE)
               : w3 \in {writeLen(w2, U64(Cardinality(DOMAIN globalPEL)))} } : TRUE)
               : globalPEL \in {globalPELOf(<<>>, group.Consumers, 1)} } : TRUE)
               : w2 \in {writeLen(writeLen(w1, group.LastID.Millis), group.LastID.Seq)} } : TRUE)
               : w1 \in {WriteString(w, group.Name)} } : TRUE)

\* orders holds, for every group, the iteration order of its globalPEL
StreamWriter_WriteConsumerGroups(w, groups, orders) ==
    StreamWriter_writeGroups(writeLen(w, U64(Len(groups))), groups, orders, 1)

\* Writer.WriteType
WriteType(w, objType) == writeUint8(w, objType)

\* Writer.WriteStream
WriteStream(w, stream, orders) ==
    (CHOOSE the \in {
        IF w1.err # "" THEN w1
        ELSE
    (CHOOSE the \in {
        IF w2.err # "" THEN w2
        ELSE StreamWriter_WriteConsumerGroups(w2, stream.Groups, orders)
      : w2 \in {StreamWriter_WriteMetadata(w1, stream.Length, stream.LastID)} } : TRUE)
      : w1 \in {StreamWriter_WriteEntries(w, stream.Entries)} } : TRUE)

ValueChecksumSize == 10

errValueVersion(version) ==
    "RDB version " \o ToString(version) \o " is not supported by Upstash"

errValueCRC == "invalid CRC value for the payload"

\* buffer.go: VerifyValueChecksum; the error is "" for nil
VerifyValueChecksum(payload) ==
    LET n == Len(payload)
        version == IF n < ValueChecksumSize THEN 0
                   ELSE payload[n - 9] + 256 * payload[n - 8]
    IN  IF n < ValueChecksumSize THEN ErrUnexpectedEOF
        ELSE IF version > Version THEN errValueVersion(version)
        ELSE IF Swap64(SubSeq(payload, n - 7, n))
                    # getCRC(Zero64, SubSeq(payload, 1, n - 8))
        THEN errValueCRC
        ELSE ""

\* Writer.WriteChecksum: the CRC is that of the payload with the version
WriteChecksum(w, version) ==
    (CHOOSE the \in {
        IF w1.err # "" THEN w1
        ELSE writeUint64(w1, getCRC(Zero64, GetBuffer(w1)))
      : w1 \in {writeUint16(w, version)} } : TRUE)

\* for i := 0; i < n; i++ { w.WriteString(list[i]) }
RECURSIVE Writer_writeStrings(_, _, _)
Writer_writeStrings(w, list, i) ==
    IF w.err # "" \/ i > Len(list) THEN w
    ELSE Writer_writeStrings(WriteString(w, list[i]), list, i + 1)

\* Writer.WriteList
WriteList(w, list) ==
    Writer_writeStrings(writeLen(w, U64(Len(list))), list, 1)

\* Writer.WriteSet
WriteSet(w, set) == Writer_writeStrings(writeLen(w, U64(Len(set))), set, 1)

errZsetLengths == "elements and scores must be of the same length"

RECURSIVE Writer_writeScored(_, _, _, _)
Writer_writeScored(w, elements, scores, i) ==
    IF w.err # "" \/ i > Len(elements) THEN w
    ELSE Writer_writeScored(
             writeUint64(WriteString(w, elements[i]), scores[i]),
             elements, scores, i + 1)

\* Writer.WriteZset: a score is the float64 as its bits
WriteZset(w, elements, scores) ==
    IF Len(elements) # Len(scores) THEN [w EXCEPT !.err = errZsetLengths]
    ELSE Writer_writeScored(writeLen(w, U64(Len(elements))), elements,
                            scores, 1)

\* for key, value := range hash: order is the iteration order of the map,
\* which the language leaves open
RECURSIVE Writer_writeFields(_, _, _, _)
Writer_writeFields(w, hash, order, i) ==
    IF w.err # "" \/ i > Len(order) THEN w
    ELSE IF order[i] \notin DOMAIN hash
    THEN Writer_writeFields(w, hash, order, i + 1)
    ELSE Writer_writeFields(
             WriteString(WriteString(w, order[i]), hash[order[i]]),
             hash, order, i + 1)

\* Writer.WriteHash: hash is a function from the keys to the values
WriteHash(w, hash, order) ==
    Writer_writeFields(writeLen(w, U64(Cardinality(DOMAIN hash))), hash,
                       order, 1)

\* module_writer.go: moduleWriter.writeModuleId
moduleWriter_writeModuleId(w, id, version) ==
    writeLen(w, <<id[1], id[2], id[3], id[4], id[5], id[6],
                  (id[7] \div 4) * 4 + (version[7] % 4), version[8]>>)

moduleWriter_writeString(w, value) ==
    WriteString(writeLen(w, U64(moduleOpCodeString)), value)

moduleWriter_writeEOF(w) == writeLen(w, U64(moduleOpCodeEOF))

moduleWriter_WriteJSON(w, json) ==
    moduleWriter_writeEOF(
        moduleWriter_writeString(
            moduleWriter_writeModuleId(w, jsonModuleID, U64(jsonModuleV3)),
            json))

\* Writer.WriteJSON
WriteJSON(w, json) == moduleWriter_WriteJSON(w, json)

(***************************************************************************)
(* rdb_file_writer.go: FileWriter.  file is the content of the os.File,    *)
(* off its offset, pend the bytes held by the bufio.Writer (which writes   *)
(* them at off when it is flushed, or earlier when its buffer fills up,    *)
(* which puts the same bytes at the same offsets), err the error of the    *)
(* last write ("" for nil; the file system of the model does not fail).    *)
(***************************************************************************)
newFileWriter == [file |-> <<>>, off |-> 0, pend |-> <<>>, err |-> ""]

\* os.File.Write at offset off: the file grows (with a hole of zero bytes
\* when off lies beyond its end)
FileWriteAt(file, off, data) ==
    IF off >= Len(file) THEN file \o Zeros(off - Len(file)) \o data
    ELSE Overwrite(file, off, data)

FileWriter_Write(fw, data) == [fw EXCEPT !.pend = fw.pend \o data]

FileWriter_WriteUint8(fw, n) == FileWriter_Write(fw, <<n>>)

FileWriter_WriteByte(fw, b) == FileWriter_Write(fw, <<b>>)

FileWriter_WriteUint16(fw, n) == FileWriter_Write(fw, LE16(n))

FileWriter_WriteUint32(fw, n) == FileWriter_Write(fw, LE32(n))

FileWriter_WriteUint64(fw, n) == FileWriter_Write(fw, Swap64(n))

FileWriter_WriteUint64BE(fw, n) == FileWriter_Write(fw, n)

FileWriter_WriteLength(fw, length) ==
    IF LessEq64(length, U64(63))
    THEN FileWriter_WriteUint8(fw, length[8] + len6Bit)
    ELSE IF LessEq64(length, U64(16383))
    THEN FileWriter_WriteUint8(
             FileWriter_WriteUint8(fw, length[7] + len14Bit), length[8])
    ELSE IF LessEq64(length, len32BitMax)
    THEN FileWriter_Write(FileWriter_WriteUint8(fw, len32Bit),
                          SubSeq(length, 5, 8))
    ELSE FileWriter_WriteUint64BE(FileWriter_WriteUint8(fw, len64Bit), length)

FileWriter_WriteLengthUint64(fw, length) ==
    FileWriter_WriteUint64BE(FileWriter_WriteUint8(fw, len64Bit), length)

\* bufio.Writer.Flush returns at once when it holds no byte: nothing is
\* written to the os.File, which keeps its length when off lies beyond it
FileWriter_Flush(fw) ==
    IF fw.pend = <<>> THEN fw
    ELSE [fw EXCEPT !.file = FileWriteAt(fw.file, fw.off, fw.pend),
                    !.off = fw.off + Len(fw.pend),
                    !.pend = <<>>]

FileWriter_Pos(fw) ==
    (CHOOSE the \in {
        [fw |-> f, pos |-> f.off]
      : f \in {FileWriter_Flush(fw)} } : TRUE)

FileWriter_SeekPos(fw, offset) ==
    [FileWriter_Flush(fw) EXCEPT !.off = offset]

(***************************************************************************)
(* FileEncoder: the state of the encoder and its private writers.  Every   *)
(* operator takes the encoder and returns the encoder after the call.      *)
(***************************************************************************)
\* clock is what the clock of the machine reads, in milliseconds since the
\* Unix epoch, when a method of the encoder asks for the time
errMissingRedisVersion == "missing Redis version"

\* the encoder and the error that NewFileEncoder(path, redisVersion) returns;
\* without an encoder s is the empty tuple
NewFileEncoder(redisVersion) ==
    IF redisVersion = <<>>
    THEN [s |-> <<>>, err |-> errMissingRedisVersion]
    ELSE [s |-> [writer |-> newFileWriter, countPos |-> 0, count |-> 0,
                 countWithExp |-> 0, redisVersion |-> redisVersion,
                 begin |-> FALSE, clock |-> Zero64],
          err |-> ""]

\* the versions a caller passes to NewFileEncoder: none, and "7"
RedisVersions == {<<>>, <<55>>}

\* the encoder of NewFileEncoder(path, "7")
NewEncoder7 == NewFileEncoder(<<55>>).s

\* "cannot begin; ..." of the Begin methods, "cannot write; ..." of
\* WriteStringEntry and WriteJSON
errCollectionOpen(verb) ==
    "cannot " \o verb \o "; a collection is already being written. Call Close on the existing collection first"

FileEncoder_writeString(s, value) ==
    [s EXCEPT !.writer =
        FileWriter_Write(FileWriter_WriteLength(s.writer, U64(Len(value))),
                         value)]

FileEncoder_writeTypeAndKey(s, t, key) ==
    FileEncoder_writeString(
        [s EXCEPT !.writer = FileWriter_WriteByte(s.writer, t)], key)

\* the milliseconds of the longest time.Duration, 2^63 - 1 nanoseconds
maxDurationMillis == <<0, 0, 8, 99, 123, 208, 90, 246>>

\* time.Until(expiry).Milliseconds() for the clock now, both instants in
\* milliseconds since the Unix epoch: the distance from the clock to the
\* instant, which time.Time.Sub holds within the longest duration on
\* either side
untilMillis(expiry, now) ==
    IF LessInt64(expiry, now)
    THEN (CHOOSE the \in { Neg64(IF Less64(maxDurationMillis, d) THEN maxDurationMillis
                     ELSE d)
             : d \in {Sub64(now, expiry)} } : TRUE)
    ELSE (CHOOSE the \in { IF Less64(maxDurationMillis, d) THEN maxDurationMillis ELSE d
             : d \in {Sub64(expiry, now)} } : TRUE)

\* an expiry is an instant in milliseconds since the Unix epoch, <<>> the
\* zero time.Time; what is written is uint64(time.Until(expiry)
\* .Milliseconds())
FileEncoder_writeExpiry(s, expiry) ==
    IF expiry = <<>> THEN s
    ELSE (CHOOSE the \in {
             [s EXCEPT
                !.writer = FileWriter_WriteUint64(
                               FileWriter_WriteByte(s.writer,
                                                    typeOpCodeExpireTimeMS),
                               msTimestamp),
                !.countWithExp = s.countWithExp + 1]
           : msTimestamp \in {untilMillis(expiry, s.clock)} } : TRUE)

FileEncoder_writeListpackStrEntry(s, value) ==
    LET w1 == FileWriter_WriteUint8(s.writer, listpackEnc32bitStrLen)
        w2 == FileWriter_WriteUint32(w1, Len(value))
        w3 == FileWriter_Write(w2, value)
    IN  (CHOOSE the \in {
            [s |-> [s EXCEPT !.writer = FileWriter_Write(w3, bl)],
             size |-> 1 + 4 + Len(value) + Len(bl)]
          : bl \in {backLenBytes(5 + Len(value))} } : TRUE)

FileEncoder_writeListpackIntEntry(s, value) ==
    LET small == -32768 <= value /\ value <= 32767
        encoding == IF small THEN listpackEncInt16 ELSE listpackEncInt32
        encodingLen == IF small THEN 2 ELSE 4
    IN  (CHOOSE the \in {
        (CHOOSE the \in {
            [s |-> [s EXCEPT !.writer = FileWriter_WriteUint8(w2, 1 + encodingLen)],
             size |-> 1 + encodingLen + 1]
          : w2 \in {IF small THEN FileWriter_WriteUint16(w1, value % 65536)
                    ELSE FileWriter_WriteUint32(w1, value)} } : TRUE)
          : w1 \in {FileWriter_WriteUint8(s.writer, encoding)} } : TRUE)

(***************************************************************************)
(* StreamEncoder.  se is [entryLength, lengthPos], s the FileEncoder it    *)
(* writes through; st carries the encoder with lpBytes and lpCount.        *)
(***************************************************************************)
NewStreamEncoder(s) ==
    (CHOOSE the \in {
    (CHOOSE the \in {
        [s |-> [s EXCEPT !.writer = w1],
         se |-> [entryLength |-> 0, lengthPos |-> startPos.pos]]
      : w1 \in {FileWriter_WriteLengthUint64(startPos.fw, Zero64)} } : TRUE)
      : startPos \in {FileWriter_Pos(s.writer)} } : TRUE)

elpInt(st, value) ==
    IF st.s.writer.err # "" THEN st
    ELSE (CHOOSE the \in {
             [s |-> e.s, lpBytes |-> st.lpBytes + e.size,
              lpCount |-> st.lpCount + 1]
           : e \in {FileEncoder_writeListpackIntEntry(st.s, value)} } : TRUE)

\* for i := from; i < len(entry.Value); i += 2
RECURSIVE elpStrs(_, _, _)
elpStrs(st, value, i) ==
    IF st.s.writer.err # "" \/ ~(i < Len(value)) THEN st
    ELSE (CHOOSE the \in {
             elpStrs([s |-> e.s, lpBytes |-> st.lpBytes + e.size,
                      lpCount |-> st.lpCount + 1], value, i + 2)
           : e \in {FileEncoder_writeListpackStrEntry(st.s, value[i + 1])} } : TRUE)

StreamEncoder_WriteEntry(se, s, entry) ==
    LET fail(w) == [s |-> [s EXCEPT !.writer = w], se |-> se]
    IN  (CHOOSE the \in {
        (CHOOSE the \in {
            IF strLenPos.fw.err # "" THEN fail(strLenPos.fw)
            ELSE
        (CHOOSE the \in {
        (CHOOSE the \in {
            IF lpBytesPos.fw.err # "" THEN fail(lpBytesPos.fw)
            ELSE
        (CHOOSE the \in {
            IF w3.err # "" THEN fail(w3)
            ELSE
        (CHOOSE the \in {
        (CHOOSE the \in {
            IF s2.s.writer.err # "" THEN fail(s2.s.writer)
            ELSE
        (CHOOSE the \in {
            IF s3.s.writer.err # "" THEN fail(s3.s.writer)
            ELSE
        (CHOOSE the \in {
            IF s4.s.writer.err # "" THEN fail(s4.s.writer)
            ELSE
        (CHOOSE the \in {
            IF s5.s.writer.err # "" THEN fail(s5.s.writer)
            ELSE
        (CHOOSE the \in {
            IF s6.s.writer.err # "" THEN fail(s6.s.writer)
            ELSE
        (CHOOSE the \in {
            IF s7.s.writer.err # "" THEN fail(s7.s.writer)
            ELSE
        (CHOOSE the \in {
            IF s8.s.writer.err # "" THEN fail(s8.s.writer)
            ELSE
        (CHOOSE the \in {
            IF s9.s.writer.err # "" THEN fail(s9.s.writer)
            ELSE
        (CHOOSE the \in {
            IF s10.s.writer.err # "" THEN fail(s10.s.writer)
            ELSE
        (CHOOSE the \in {
            IF s11.s.writer.err # "" THEN fail(s11.s.writer)
            ELSE
        (CHOOSE the \in {
        (CHOOSE the \in {
            IF pos.fw.err # "" THEN fail(pos.fw)
            ELSE
        (CHOOSE the \in {
        (CHOOSE the \in {
            IF w5.err # "" THEN fail(w5)
            ELSE
        (CHOOSE the \in {
        (CHOOSE the \in {
            IF w6.err # "" THEN fail(w6)
            ELSE
        (CHOOSE the \in {
            IF w7.err # "" THEN fail(w7)
            ELSE
        (CHOOSE the \in {
            [s |-> [s EXCEPT !.writer = w8],
             se |-> [se EXCEPT !.entryLength = se.entryLength + 1]]
          : w8 \in {FileWriter_SeekPos(w7, pos.pos)} } : TRUE)
          : w7 \in {FileWriter_WriteLengthUint64(
                        FileWriter_SeekPos(w6, strLenPos.pos), U64(lpBytes))} } : TRUE)
          : w6 \in {FileWriter_WriteUint16(w5, lpCount)} } : TRUE)
          : lpCount \in {IF s11.lpCount >= listpackLenBig THEN listpackLenBig
                         ELSE s11.lpCount} } : TRUE)
          : w5 \in {FileWriter_WriteUint32(
                        FileWriter_SeekPos(pos.fw, lpBytesPos.pos), lpBytes)} } : TRUE)
          : lpBytes \in {s11.lpBytes + 4 + 2 + 1} } : TRUE)
          : pos \in {FileWriter_Pos(w4)} } : TRUE)
          : w4 \in {FileWriter_WriteUint8(s11.s.writer, listpackEnd)} } : TRUE)
          : s11 \in {elpInt(s10, 3 + (Len(entry.Value) \div 2))} } : TRUE)
          : s10 \in {elpStrs(s9, entry.Value, 1)} } : TRUE)
          : s9 \in {elpInt(s8, 0)} } : TRUE)
          : s8 \in {elpInt(s7, 0)} } : TRUE)
          : s7 \in {elpInt(s6, 2)} } : TRUE)
          : s6 \in {elpInt(s5, 0)} } : TRUE)
          : s5 \in {elpStrs(s4, entry.Value, 0)} } : TRUE)
          : s4 \in {elpInt(s3, Len(entry.Value) \div 2)} } : TRUE)
          : s3 \in {elpInt(s2, 0)} } : TRUE)
          : s2 \in {elpInt(s0, 1)} } : TRUE)
          : s0 \in {[s |-> [s1 EXCEPT !.writer = w3], lpBytes |-> 0, lpCount |-> 0]} } : TRUE)
          : w3 \in {FileWriter_WriteUint16(
                        FileWriter_WriteUint32(lpBytesPos.fw, 0), 0)} } : TRUE)
          : lpBytesPos \in {FileWriter_Pos(w2)} } : TRUE)
          : w2 \in {FileWriter_WriteLengthUint64(strLenPos.fw, Zero64)} } : TRUE)
          : strLenPos \in {FileWriter_Pos(s1.writer)} } : TRUE)
          : s1 \in {FileEncoder_writeString(s, entry.ID.Millis \o entry.ID.Seq)} } : TRUE)

StreamEncoder_WriteMetadata(s, length, lastID) ==
    (CHOOSE the \in {
        IF w1.err # "" THEN [s EXCEPT !.writer = w1]
        ELSE
    (CHOOSE the \in {
        IF w2.err # "" THEN [s EXCEPT !.writer = w2]
        ELSE [s EXCEPT !.writer = FileWriter_WriteLength(w2, lastID.Seq)]
      : w2 \in {FileWriter_WriteLength(w1, lastID.Millis)} } : TRUE)
      : w1 \in {FileWriter_WriteLength(s.writer, length)} } : TRUE)

RECURSIVE StreamEncoder_writeGlobalPEL(_, _, _, _)
StreamEncoder_writeGlobalPEL(w, globalPEL, order, i) ==
    IF w.err # "" \/ i > Len(order) THEN w
    ELSE IF order[i] \notin DOMAIN globalPEL
    THEN StreamEncoder_writeGlobalPEL(w, globalPEL, order, i + 1)
    ELSE LET pe == globalPEL[order[i]]
             w1 == FileWriter_WriteUint64BE(w, pe.Entry.ID.Millis)
             w2 == FileWriter_WriteUint64BE(w1, pe.Entry.ID.Seq)
         IN  (CHOOSE the \in {
                 IF w3.err # "" THEN w3
                 ELSE
             (CHOOSE the \in {
                 StreamEncoder_writeGlobalPEL(w4, globalPEL, order, i + 1)
               : w4 \in {FileWriter_WriteLength(w3, pe.DeliveryCount)} } : TRUE)
               : w3 \in {FileWriter_WriteUint64BE(w2, pe.DeliveryTime)} } : TRUE)

RECURSIVE StreamEncoder_writeConsumerPEL(_, _, _)
StreamEncoder_writeConsumerPEL(w, pes, p) ==
    IF w.err # "" \/ p > Len(pes) THEN w
    ELSE StreamEncoder_writeConsumerPEL(
             FileWriter_WriteUint64BE(
                 FileWriter_WriteUint64BE(w, pes[p].Entry.ID.Millis),
                 pes[p].Entry.ID.Seq), pes, p + 1)

RECURSIVE StreamEncoder_writeConsumers(_, _, _)
StreamEncoder_writeConsumers(s, consumers, c) ==
    IF s.writer.err # "" \/ c > Len(consumers) THEN s
    ELSE LET consumer == consumers[c]
             s1 == FileEncoder_writeString(s, consumer.Name)
             w2 == FileWriter_WriteUint64(s1.writer, consumer.SeenTime)
         IN  (CHOOSE the \in {
                 IF w3.err # "" THEN [s EXCEPT !.writer = w3]
                 ELSE
             (CHOOSE the \in {
                 StreamEncoder_writeConsumers([s EXCEPT !.writer = w4],
                                              consumers, c + 1)
               : w4 \in {StreamEncoder_writeConsumerPEL(w3,
                             consumer.PendingEntries, 1)} } : TRUE)
               : w3 \in {FileWriter_WriteLength(w2,
                             U64(Len(consumer.PendingEntries)))} } : TRUE)

RECURSIVE StreamEncoder_writeGroups(_, _, _, _)
StreamEncoder_writeGroups(s, groups, orders, g) ==
    IF s.writer.err # "" \/ g > Len(groups) THEN s
    ELSE LET group == groups[g]
             s1 == FileEncoder_writeString(s, group.Name)
             w2 == FileWriter_WriteLength(
                       FileWriter_WriteLength(s1.writer, group.LastID.Millis),
                       group.LastID.Seq)
         IN  (CHOOSE the \in {
             (CHOOSE the \in {
                 IF w3.err # "" THEN [s EXCEPT !.writer = w3]
                 ELSE
             (CHOOSE the \in {
                 IF w4.err # "" THEN [s EXCEPT !.writer = w4]
                 ELSE
             (CHOOSE the \in {
                 IF w5.err # "" THEN [s EXCEPT !.writer = w5]
                 ELSE
             (CHOOSE the \in {
                 StreamEncoder_writeGroups(s6, groups, orders, g + 1)
               : s6 \in {StreamEncoder_writeConsumers([s EXCEPT !.writer = w5],
                                                      group.Consumers, 1)} } : TRUE)
               : w5 \in {FileWriter_WriteLength(w4, U64(Len(group.Consumers)))} } : TRUE)
               : w4 \in {StreamEncoder_writeGlobalPEL(w3, globalPEL, orders[g], 1)} } : TRUE)
               : w3 \in {FileWriter_WriteLength(w2,
                             U64(Cardinality(DOMAIN globalPEL)))} } : TRUE)
               : globalPEL \in {globalPELOf(<<>>, group.Consumers, 1)} } : TRUE)

\* orders holds, for every group, the iteration order of its globalPEL
StreamEncoder_WriteGroups(s, groups, orders) ==
    StreamEncoder_writeGroups(
        [s EXCEPT !.writer = FileWriter_WriteLength(s.writer, U64(Len(groups)))],
        groups, orders, 1)

StreamEncoder_Close(se, s) ==
    (CHOOSE the \in {
    (CHOOSE the \in {
    (CHOOSE the \in {
        [s EXCEPT !.writer = FileWriter_SeekPos(w2, finalPos.pos)]
      : w2 \in {FileWriter_WriteLengthUint64(w1, U64(se.entryLength))} } : TRUE)
      : w1 \in {FileWriter_SeekPos(finalPos.fw, se.lengthPos)} } : TRUE)
      : finalPos \in {FileWriter_Pos(s.writer)} } : TRUE)

(***************************************************************************)
(* collection_encoders.go.  A collection encoder is [kind, length,         *)
(* lengthPos]; the operators return the FileEncoder s and the collection   *)
(* encoder ce after the call.                                              *)
(***************************************************************************)
baseCollectionEncoder_WriteZeroLength(kind, s) ==
    (CHOOSE the \in {
        [s |-> [s EXCEPT !.writer =
                   FileWriter_WriteLengthUint64(startPos.fw, Zero64)],
         ce |-> [kind |-> kind, length |-> 0, lengthPos |-> startPos.pos]]
      : startPos \in {FileWriter_Pos(s.writer)} } : TRUE)

\* Close without the write of the length at lengthPos: C1_EncoderRoundTrip
\* does not hold of it
baseCollectionEncoder_Close_noLength(ce, s) ==
    (CHOOSE the \in {
        [f EXCEPT !.begin = FALSE]
      : f \in {[s EXCEPT !.writer = FileWriter_Pos(s.writer).fw]} } : TRUE)

baseCollectionEncoder_Close(ce, s) ==
    (CHOOSE the \in {
    (CHOOSE the \in {
    (CHOOSE the \in {
        [s EXCEPT !.writer = FileWriter_SeekPos(w2, finalPos.pos),
                  !.begin = FALSE]
      : w2 \in {FileWriter_WriteLengthUint64(w1, U64(ce.length))} } : TRUE)
      : w1 \in {FileWriter_SeekPos(finalPos.fw, ce.lengthPos)} } : TRUE)
      : finalPos \in {FileWriter_Pos(s.writer)} } : TRUE)

\* ListEncoder.WriteFieldStr and SetEncoder.WriteFieldStr
CollectionEncoder_WriteFieldStr(ce, s, val) ==
    [s |-> FileEncoder_writeString(s, val),
     ce |-> [ce EXCEPT !.length = ce.length + 1]]

\* value is math.Float64bits of the score
SortedSetEncoder_WriteFieldStrFloat64(ce, s, key, value) ==
    (CHOOSE the \in {
        [s |-> [s1 EXCEPT !.writer = FileWriter_WriteUint64(s1.writer, value)],
         ce |-> [ce EXCEPT !.length = ce.length + 1]]
      : s1 \in {FileEncoder_writeString(s, key)} } : TRUE)

HashEncoder_WriteFieldStrStr(ce, s, key, value) ==
    [s |-> FileEncoder_writeString(FileEncoder_writeString(s, key), value),
     ce |-> [ce EXCEPT !.length = ce.length + 1]]

\* NewHashMetadataEncoder: a zero minimum expiration, then the length
NewHashMetadataEncoder(s) ==
    baseCollectionEncoder_WriteZeroLength(
        TypeHashMetadata,
        [s EXCEPT !.writer = FileWriter_WriteUint64(s.writer, Zero64)])

\* expiry is the zero time.Time (<<>>) or the 64 bits of expiry.UnixMilli()
HashMetadataEncoder_WriteFieldStrStrWithExpiry(ce, s, key, value, expiry) ==
    (CHOOSE the \in {
        [s |-> FileEncoder_writeString(
                   FileEncoder_writeString(
                       [s EXCEPT !.writer =
                           FileWriter_WriteLength(s.writer, ms)],
                       key), value),
         ce |-> [ce EXCEPT !.length = ce.length + 1]]
      : ms \in {IF expiry = <<>> THEN Zero64 ELSE Add64(expiry, U64(1))} } : TRUE)

(***************************************************************************)
(* FileEncoder: Begin, the record writers and Close.                       *)
(***************************************************************************)
FileEncoder_writeAuxField(s, key, value) ==
    FileEncoder_writeString(
        FileEncoder_writeString(
            [s EXCEPT !.writer = FileWriter_WriteByte(s.writer, typeOpCodeAux)],
            key), value)

FileEncoder_selectDB(s, dbNumber) ==
    [s EXCEPT !.writer =
        FileWriter_WriteLength(
            FileWriter_WriteByte(s.writer, typeOpCodeSelectDB), U64(dbNumber))]

FileEncoder_writeResizeDB(s, dbSize, expiryDBSize) ==
    [s EXCEPT !.writer =
        FileWriter_WriteLengthUint64(
            FileWriter_WriteLengthUint64(
                FileWriter_WriteByte(s.writer, typeOpCodeResizeDB),
                U64(dbSize)), U64(expiryDBSize))]

FileEncoder_writeEOF(s) ==
    [s EXCEPT !.writer = FileWriter_WriteByte(s.writer, typeOpCodeEOF)]

\* id & 0xFFFFFFFFFFFFFC00 | version & 0x3FF, for a version below 1024
FileEncoder_writeModuleId(s, id, version) ==
    [s EXCEPT !.writer =
        FileWriter_WriteLength(s.writer,
            <<id[1], id[2], id[3], id[4], id[5], id[6],
              ((id[7] \div 4) * 4) + (version \div 256), version % 256>>)]

FileEncoder_writeModuleString(s, value) ==
    FileEncoder_writeString(
        [s EXCEPT !.writer =
            FileWriter_WriteLength(s.writer, U64(moduleOpCodeString))], value)

FileEncoder_writeModuleEOF(s) ==
    [s EXCEPT !.writer = FileWriter_WriteLength(s.writer, U64(moduleOpCodeEOF))]

\* "REDIS", "0012"
magicStr == <<82, 69, 68, 73, 83>>

VersionDigits(v) ==
    <<48 + ((v \div 1000) % 10), 48 + ((v \div 100) % 10),
      48 + ((v \div 10) % 10), 48 + (v % 10)>>

\* ctime is the string of the aux field of the same name
FileEncoder_Begin(s, ctime) ==
    LET w1 == FileWriter_Write(FileWriter_Write(s.writer, magicStr),
                               VersionDigits(Version))
    IN  (CHOOSE the \in {
            IF s1.writer.err # "" THEN s1
            ELSE
        (CHOOSE the \in {
            IF s2.writer.err # "" THEN s2
            ELSE
        (CHOOSE the \in {
            IF s3.writer.err # "" THEN s3
            ELSE
        (CHOOSE the \in {
        (CHOOSE the \in {
            IF resizeDbPos.fw.err # "" THEN s4
            ELSE FileEncoder_writeResizeDB(
                     [s4 EXCEPT !.writer = resizeDbPos.fw,
                                !.countPos = resizeDbPos.pos], 0, 0)
          : resizeDbPos \in {FileWriter_Pos(s4.writer)} } : TRUE)
          : s4 \in {FileEncoder_selectDB(s3, 0)} } : TRUE)
          : s3 \in {FileEncoder_writeAuxField(s2, <<99, 116, 105, 109, 101>>, ctime)} } : TRUE)
          : s2 \in {FileEncoder_writeAuxField(s1,
                        <<114, 101, 100, 105, 115, 45, 98, 105, 116, 115>>,
                        <<54, 52>>)} } : TRUE)
          : s1 \in {FileEncoder_writeAuxField([s EXCEPT !.writer = w1],
                        <<114, 101, 100, 105, 115, 45, 118, 101, 114>>, s.redisVersion)} } : TRUE)

\* the operators below return the encoder and the error of the call
FileEncoder_WriteStringEntry(s, key, value, expiry) ==
    IF s.begin THEN [s |-> s, err |-> errCollectionOpen("write")]
    ELSE (CHOOSE the \in {
         (CHOOSE the \in {
             [s |-> [s2 EXCEPT !.count = s.count + 1], err |-> ""]
           : s2 \in {FileEncoder_writeString(
                         FileEncoder_writeString(
                             [s1 EXCEPT !.writer =
                                 FileWriter_WriteByte(s1.writer, TypeString)],
                             key), value)} } : TRUE)
           : s1 \in {FileEncoder_writeExpiry(s, expiry)} } : TRUE)

\* BeginHash, BeginList, BeginSet, BeginSortedSet: t is the type byte
FileEncoder_BeginCollection(s, t, key, expiry) ==
    IF s.begin THEN [s |-> s, ce |-> <<>>, err |-> errCollectionOpen("begin")]
    ELSE LET s1 == FileEncoder_writeExpiry([s EXCEPT !.begin = TRUE], expiry)
             s2 == FileEncoder_writeTypeAndKey(s1, t, key)
         IN  (CHOOSE the \in {
                 [s |-> n.s, ce |-> n.ce, err |-> ""]
               : n \in {baseCollectionEncoder_WriteZeroLength(t,
                            [s2 EXCEPT !.count = s.count + 1])} } : TRUE)

FileEncoder_BeginHashWithMetadata(s, key, expiry) ==
    IF s.begin THEN [s |-> s, ce |-> <<>>, err |-> errCollectionOpen("begin")]
    ELSE LET s1 == FileEncoder_writeExpiry([s EXCEPT !.begin = TRUE], expiry)
             s2 == FileEncoder_writeTypeAndKey(s1, TypeHashMetadata, key)
         IN  (CHOOSE the \in {
                 [s |-> n.s, ce |-> n.ce, err |-> ""]
               : n \in {NewHashMetadataEncoder(
                            [s2 EXCEPT !.count = s.count + 1])} } : TRUE)

FileEncoder_BeginStream(s, key, expiry) ==
    IF s.begin THEN [s |-> s, se |-> <<>>, err |-> errCollectionOpen("begin")]
    ELSE LET s1 == FileEncoder_writeExpiry([s EXCEPT !.begin = TRUE], expiry)
             s2 == FileEncoder_writeTypeAndKey(s1, TypeStreamListpacks, key)
         IN  (CHOOSE the \in {
                 [s |-> n.s, se |-> n.se, err |-> ""]
               : n \in {NewStreamEncoder([s2 EXCEPT !.count = s.count + 1])} } : TRUE)

FileEncoder_WriteJSON(s, key, json, expiry) ==
    IF s.begin THEN [s |-> s, err |-> errCollectionOpen("write")]
    ELSE LET s1 == FileEncoder_writeExpiry(s, expiry)
             s2 == FileEncoder_writeTypeAndKey(s1, TypeModule2, key)
             s3 == FileEncoder_writeModuleId(s2, jsonModuleID, jsonModuleV3)
             s4 == FileEncoder_writeModuleString(s3, json)
             s5 == FileEncoder_writeModuleEOF(s4)
         IN  [s |-> [s5 EXCEPT !.count = s.count + 1], err |-> ""]

FileEncoder_Close(s) ==
    (CHOOSE the \in {
    (CHOOSE the \in {
        IF w2.err # "" THEN [s1 EXCEPT !.writer = w2]
        ELSE
    (CHOOSE the \in {
        IF w3.err # "" THEN [s1 EXCEPT !.writer = w3]
        ELSE
    (CHOOSE the \in {
        [s4 EXCEPT !.writer = FileWriter_Flush(s4.writer)]
      : s4 \in {FileEncoder_writeResizeDB([s1 EXCEPT !.writer = w3], s.count,
                                          s.countWithExp)} } : TRUE)
      : w3 \in {FileWriter_SeekPos(w2, s.countPos)} } : TRUE)
      : w2 \in {FileWriter_Flush(FileWriter_WriteUint64(s1.writer, Zero64))} } : TRUE)
      : s1 \in {FileEncoder_writeEOF(s)} } : TRUE)

(***************************************************************************)
(* part_012: ReadFile.  st is the state of one call: the file, the locals  *)
(* of the function (header, endsWithCRC, hasExpireTime, expireTime, the    *)
(* type byte t of the current iteration of the op-code loop), the reader,  *)
(* the current handler hs and the result.  handler0 is hs with nop reset.  *)
(* The buffer is the fileBackedBuffer of buffer.go over the *os.File that  *)
(* ReadFile has read the header from; buf.crc is the crc of its            *)
(* crcCalculator, the one running CRC that buffer holds (buf.Crc()).       *)
(***************************************************************************)
magicLen == 5

versionLen == 4

headerLen == magicLen + versionLen

errEOF == "EOF"

errWrongSignature == "wrong signature trying to load DB from file"

errVersion == "cannot handle RDB format version"

errCRCLen == "unexpected CRC length at the end of the RDB file"

errBadCRC == "wrong CRC at the end of the RDB file"

errMultiDB ==
    "multiple databases are not supported when the partial restore is not allowed"

errFunctionPreGA == "pre-release function format not supported"

errFunction2 ==
    "restoring function payload is not supported when the partial restore is not allowed"

errUnknownEncoding == "unknown RDB encoding type"

\* time.Duration(t) * time.Millisecond and time.Duration(t) * time.Second:
\* int64 nanoseconds, the product taken modulo 2^64
DurationOfMillis(t) == MulSmall(MulSmall(t, 1000).prod, 1000).prod

DurationOfSeconds(t) == MulSmall(DurationOfMillis(t), 1000).prod

\* buf.initCRC(header), which buffer.go does not hold: the header, which
\* ReadFile read from the file itself, enters the running CRC first
fileBackedBuffer_initCRC(b, header) ==
    [b EXCEPT !.crcCalc.crcOf = @ \o header]

\* buf.DoNotCalcCrc() and buf.Crc() on the buffer of a reader
buffer_DoNotCalcCrc(r) ==
    [r EXCEPT !.buf = IF r.kind = "forwardOnly"
                      THEN forwardOnlyBuffer_DoNotCalcCrc(@)
                      ELSE IF r.kind = "file"
                      THEN fileBackedBuffer_DoNotCalcCrc(@)
                      ELSE @]

buffer_Crc(r) ==
    IF r.kind = "forwardOnly" THEN forwardOnlyBuffer_Crc(r.buf)
    ELSE IF r.kind = "file" THEN fileBackedBuffer_Crc(r.buf)
    ELSE Zero64

IdleRead ==
    [status |-> "idle", err |-> "", file |-> <<>>, header |-> <<>>,
     endsWithCRC |-> FALSE, r |-> newValueReader(<<>>),
     hs |-> newHandler(FALSE, 0), hasExpireTime |-> FALSE,
     expireTime |-> Zero64, t |-> 0, crcRead |-> FALSE, trace |-> <<>>,
     input |-> <<>>, byBuffer |-> FALSE]

ReadFile_return(st, r, hs, err) ==
    [st EXCEPT !.status = "returned", !.err = err, !.r = r, !.hs = hs]

ReadFile_continue(st, r, hs) == [st EXCEPT !.r = r, !.hs = hs]

\* os.Open to the construction of the reader; file.Read(header) returns
\* io.EOF on an empty file
ReadFile_open(file, hs) ==
    LET header == SubSeq(file, 1, MinInt(Len(file), headerLen))
        st == [IdleRead EXCEPT !.file = file, !.header = header, !.hs = hs]
        fail(e) == [st EXCEPT !.status = "returned", !.err = e]
    IN  IF Len(file) = 0 THEN fail(errEOF)
        ELSE IF Len(header) # headerLen THEN fail(ErrUnexpectedEOF)
        ELSE IF SubSeq(header, 1, magicLen) # magicStr
        THEN fail(errWrongSignature)
        ELSE
        (CHOOSE the \in {
            IF version.err # "" THEN fail(version.err)
            ELSE IF LessInt64(version.val, U64(1))
                     \/ LessInt64(U64(Version), version.val)
            THEN fail(errVersion)
            ELSE
        (CHOOSE the \in {
        (CHOOSE the \in {
        (CHOOSE the \in {
            [st EXCEPT !.status = "loop", !.endsWithCRC = endsWithCRC,
                       !.r = IF endsWithCRC
                             THEN [buf EXCEPT !.buf =
                                      fileBackedBuffer_initCRC(@, header)]
                             ELSE buf]
          : buf \in {newFileBackedReader(file, headerLen, fileLen,
                                         MinInt(fileLen, 1048576))} } : TRUE)
          : fileLen \in {Len(file) - headerLen
                           - (IF endsWithCRC THEN crcLen ELSE 0)} } : TRUE)
          : endsWithCRC \in {~LessInt64(version.val, U64(5))} } : TRUE)
          : version \in {Atoi64(SubSeq(header, magicLen + 1, headerLen))} } : TRUE)

\* case typeOpCodeEOF.  file.Read(header) reads from the read offset of the
\* file, which the buffer shares: what follows the header and the windows
\* the buffer has loaded, and at most len(header) bytes of it
ReadFile_eof(st, r) ==
    IF ~st.endsWithCRC THEN ReadFile_return(st, r, st.hs, "")
    ELSE LET off == r.buf.osPos
             stored == SubSeq(st.file, off + 1,
                              MinInt(Len(st.file), off + headerLen))
             done(e) == [ReadFile_return(st, r, st.hs, e)
                             EXCEPT !.crcRead = TRUE]
         IN  IF Len(stored) = 0 THEN done(errEOF)
             ELSE IF Len(stored) # crcLen THEN done(errCRCLen)
             ELSE IF Swap64(stored) = Zero64 THEN done("")
             ELSE IF fileBackedBuffer_Crc(r.buf) # Swap64(stored)
             THEN done(errBadCRC)
             ELSE done("")

errStrictEOF == "expected eof, but there are bytes after the end of the RDB file"

\* case typeOpCodeEOF of readFile(buf, handler, maxLz77StrLen), whose
\* buffer holds the file to its last byte: the 8 bytes after the EOF byte
\* are the CRC, and more bytes after them are refused when the handler
\* requires a strict EOF
readFile_eof(st, r) ==
    IF ~st.endsWithCRC THEN ReadFile_return(st, r, st.hs, "")
    ELSE (CHOOSE the \in {
             LET done(e) == [ReadFile_return(st, stored.r, st.hs, e)
                                 EXCEPT !.crcRead = TRUE]
             IN  IF stored.err # "" THEN done(stored.err)
                 ELSE IF Swap64(stored.val) # Zero64
                         /\ buffer_Crc(stored.r) # Swap64(stored.val)
                 THEN done(errBadCRC)
                 ELSE IF RequireStrictEOF(st.hs)
                         /\ read(stored.r, 1).err = ""
                 THEN done(errStrictEOF)
                 ELSE done("")
           : stored \in {read(buffer_DoNotCalcCrc(r), crcLen)} } : TRUE)

\* ReadFile_selectDB without the change of handler:
\* C3_SelectDBRoutesRecords does not hold of it
ReadFile_selectDB_sameHandler(st, r) ==
    (CHOOSE the \in {
        IF dbnum.err # "" THEN ReadFile_return(st, dbnum.r, st.hs, dbnum.err)
        ELSE IF dbnum.val # Zero64 /\ ~AllowPartialRead(st.hs)
        THEN ReadFile_return(st, dbnum.r, st.hs, errMultiDB)
        ELSE ReadFile_continue(st, dbnum.r, st.hs)
      : dbnum \in {readLen(r)} } : TRUE)

\* ReadFile_selectDB without the question to the handler: a non-zero index
\* always installs the null handler.  C27_NullHandlerOnlyIfPartial does not
\* hold of it
ReadFile_selectDB_unasked(st, r) ==
    (CHOOSE the \in {
        IF dbnum.err # "" THEN ReadFile_return(st, dbnum.r, st.hs, dbnum.err)
        ELSE IF dbnum.val # Zero64
        THEN ReadFile_continue(st, dbnum.r, [st.hs EXCEPT !.nop = TRUE])
        ELSE ReadFile_continue(st, dbnum.r, [st.hs EXCEPT !.nop = FALSE])
      : dbnum \in {readLen(r)} } : TRUE)

\* case typeOpCodeSelectDB
ReadFile_selectDB(st, r) ==
    (CHOOSE the \in {
        IF dbnum.err # "" THEN ReadFile_return(st, dbnum.r, st.hs, dbnum.err)
        ELSE IF dbnum.val # Zero64
        THEN IF ~AllowPartialRead(st.hs)
             THEN ReadFile_return(st, dbnum.r, st.hs, errMultiDB)
             ELSE ReadFile_continue(st, dbnum.r, [st.hs EXCEPT !.nop = TRUE])
        ELSE ReadFile_continue(st, dbnum.r, [st.hs EXCEPT !.nop = FALSE])
      : dbnum \in {readLen(r)} } : TRUE)

\* case typeOpCodeExpireTime
ReadFile_expireTime(st, r) ==
    (CHOOSE the \in {
        IF t.err # "" THEN ReadFile_return(st, t.r, st.hs, t.err)
        ELSE [ReadFile_continue(st, t.r, st.hs)
                  EXCEPT !.hasExpireTime = TRUE,
                         !.expireTime = DurationOfSeconds(t.val)]
      : t \in {readUint32(r)} } : TRUE)

\* case typeOpCodeExpireTimeMS
ReadFile_expireTimeMS(st, r) ==
    (CHOOSE the \in {
        IF t.err # "" THEN ReadFile_return(st, t.r, st.hs, t.err)
        ELSE [ReadFile_continue(st, t.r, st.hs)
                  EXCEPT !.hasExpireTime = TRUE,
                         !.expireTime = DurationOfMillis(t.val)]
      : t \in {readUint64(r)} } : TRUE)

\* case typeOpCodeResizeDB
ReadFile_resizeDB(st, r) ==
    (CHOOSE the \in {
        IF dbSize.err # "" THEN ReadFile_return(st, dbSize.r, st.hs, dbSize.err)
        ELSE
    (CHOOSE the \in {
        IF expires.err # ""
        THEN ReadFile_return(st, expires.r, st.hs, expires.err)
        ELSE ReadFile_continue(st, expires.r, st.hs)
      : expires \in {readLen(dbSize.r)} } : TRUE)
      : dbSize \in {readLen(r)} } : TRUE)

\* case typeOpCodeAux
ReadFile_aux(st, r) ==
    (CHOOSE the \in {
        IF auxKey.err # "" THEN ReadFile_return(st, auxKey.r, st.hs, auxKey.err)
        ELSE
    (CHOOSE the \in {
        IF auxVal.err # "" THEN ReadFile_return(st, auxVal.r, st.hs, auxVal.err)
        ELSE ReadFile_continue(st, auxVal.r, st.hs)
      : auxVal \in {ReadString(auxKey.r)} } : TRUE)
      : auxKey \in {ReadString(r)} } : TRUE)

\* case typeOpCodeFreq
ReadFile_freq(st, r) ==
    (CHOOSE the \in {
        IF freq.err # "" THEN ReadFile_return(st, freq.r, st.hs, freq.err)
        ELSE ReadFile_continue(st, freq.r, st.hs)
      : freq \in {readUint8(r)} } : TRUE)

\* case typeOpCodeIdle
ReadFile_idle(st, r) ==
    (CHOOSE the \in {
        IF idle.err # "" THEN ReadFile_return(st, idle.r, st.hs, idle.err)
        ELSE ReadFile_continue(st, idle.r, st.hs)
      : idle \in {readLen(r)} } : TRUE)

\* case typeOpCodeModuleAux
ReadFile_moduleAux(st, r) ==
    (CHOOSE the \in {
        IF id.err # "" THEN ReadFile_return(st, id.r, st.hs, id.err)
        ELSE
    (CHOOSE the \in {
        IF s.err # "" THEN ReadFile_return(st, s.r, st.hs, s.err)
        ELSE ReadFile_continue(st, s.r, st.hs)
      : s \in {moduleReader_Skip(id.r)} } : TRUE)
      : id \in {readLen(r)} } : TRUE)

\* case typeOpCodeFunction2
ReadFile_function2(st, r) ==
    IF ~AllowPartialRead(st.hs) THEN ReadFile_return(st, r, st.hs, errFunction2)
    ELSE (CHOOSE the \in {
             IF payload.err # ""
             THEN ReadFile_return(st, payload.r, st.hs, payload.err)
             ELSE ReadFile_continue(st, payload.r, st.hs)
           : payload \in {ReadString(r)} } : TRUE)

\* default: a record
ReadFile_record(st, r, t) ==
    IF t > TypeStreamListpacks3
    THEN ReadFile_return(st, r, st.hs, errUnknownEncoding)
    ELSE (CHOOSE the \in {
             IF o.err # "" THEN ReadFile_return(st, o.r, o.hs, o.err)
             ELSE [ReadFile_continue(st, o.r, o.hs)
                       EXCEPT !.hasExpireTime = FALSE]
           : o \in {ReadFile_readObject(r, st.hs, t, st.hasExpireTime,
                                        st.expireTime)} } : TRUE)

\* the switch of the op-code loop on the type byte t read by ReadType
ReadFile_switch(st, r, t) ==
    CASE t = typeOpCodeEOF ->
             (IF st.byBuffer THEN readFile_eof(st, r) ELSE ReadFile_eof(st, r))
      [] t = typeOpCodeSelectDB ->
             ReadFile_selectDB(st, r)
      [] t = typeOpCodeExpireTime ->
             ReadFile_expireTime(st, r)
      [] t = typeOpCodeExpireTimeMS ->
             ReadFile_expireTimeMS(st, r)
      [] t = typeOpCodeResizeDB ->
             ReadFile_resizeDB(st, r)
      [] t = typeOpCodeAux ->
             ReadFile_aux(st, r)
      [] t = typeOpCodeFreq ->
             ReadFile_freq(st, r)
      [] t = typeOpCodeIdle ->
             ReadFile_idle(st, r)
      [] t = typeOpCodeModuleAux ->
             ReadFile_moduleAux(st, r)
      [] t = typeOpCodeFunctionPreGA ->
             ReadFile_return(st, r, st.hs, errFunctionPreGA)
      [] t = typeOpCodeFunction2 ->
             ReadFile_function2(st, r)
      [] OTHER ->
             ReadFile_record(st, r, t)

\* one iteration of the op-code loop.  trace records what the iteration
\* read: its type byte, the positions of the buffer before and after it,
\* and the number of callbacks made when it ended
ReadFile_step(st) ==
    (CHOOSE the \in {
        IF t.err # ""
        THEN [ReadFile_return(st, t.r, st.hs, t.err)
                  EXCEPT !.trace = Append(st.trace,
                                      [t |-> -1, from |-> Consumed(st.r),
                                       to |-> Consumed(t.r),
                                       calls |-> Len(st.hs.calls)])]
        ELSE
    (CHOOSE the \in {
        [n EXCEPT !.t = t.val,
                  !.trace = Append(st.trace,
                                [t |-> t.val, from |-> Consumed(st.r),
                                 to |-> Consumed(n.r),
                                 calls |-> Len(n.hs.calls)])]
      : n \in {ReadFile_switch([st EXCEPT !.t = t.val], t.r, t.val)} } : TRUE)
      : t \in {ReadType(st.r)} } : TRUE)

(***************************************************************************)
(* Stream specification: a stream is written by Writer.WriteStream, by the *)
(* StreamEncoder of a FileEncoder, or given as wire bytes, and then        *)
(* decoded with a handler whose failAt-th callback returns an error.       *)
(***************************************************************************)
MaxFail == 4

StreamID(m, q) == [Millis |-> U64(m), Seq |-> U64(q)]

StreamIDs == {StreamID(0, 0), StreamID(1, 1)}

\* field/value vectors of even length
EntryValues == {<<>>, <<<<102>>, <<118>>>>}

SKey == <<107>>

EntriesOver(ids) ==
    UNION {{<<>>},
           {<<[ID |-> i, Value |-> v]>> : i \in ids, v \in EntryValues},
           IF Cardinality(ids) < 2 THEN {}
           ELSE {<<[ID |-> StreamID(0, 0), Value |-> v1],
                   [ID |-> StreamID(1, 1), Value |-> v2]>> :
                    v1 \in EntryValues, v2 \in {<<>>}}}

EntryByID(entries, id) ==
    IF \E k \in DOMAIN entries : entries[k].ID = id
    THEN entries[CHOOSE k \in DOMAIN entries : entries[k].ID = id]
    ELSE [ID |-> id, Value |-> <<>>]

\* the pending entries of a consumer: a list of distinct IDs
PendingLists == {<<>>, <<StreamID(0, 0)>>, <<StreamID(1, 1)>>,
                 <<StreamID(1, 1), StreamID(0, 0)>>}

PendingOf(entries, ids) ==
    [p \in DOMAIN ids |->
        [Entry |-> EntryByID(entries, ids[p]), DeliveryTime |-> U64(1),
         DeliveryCount |-> U64(2)]]

ConsumerOf(entries, name, active, ids) ==
    [Name |-> <<name>>, SeenTime |-> U64(5), ActiveTime |-> U64(active),
     PendingEntries |-> PendingOf(entries, ids)]

GroupsOver(entries) ==
    {<<>>} \cup
    {<<[Name |-> <<103>>, LastID |-> StreamID(1, 1), EntriesRead |-> U64(er),
        Consumers |-> cs]>> :
        er \in {0, 1},
        cs \in {<<>>} \cup
               {<<ConsumerOf(entries, 97, act, p1)>> :
                    act \in {0, 7}, p1 \in PendingLists} \cup
               {<<ConsumerOf(entries, 97, 0, p1),
                  ConsumerOf(entries, 98, 0, <<StreamID(1, 1)>>)>> :
                    p1 \in {<<>>, <<StreamID(0, 0)>>}}}

Streams ==
    UNION {{[Entries |-> es, Length |-> U64(Len(es)),
             LastID |-> StreamID(1, 1), Groups |-> gs] :
               gs \in GroupsOver(es)} : es \in EntriesOver(StreamIDs)}

PELOrders == {<<StreamID(0, 0), StreamID(1, 1)>>,
              <<StreamID(1, 1), StreamID(0, 0)>>}

NoPayload ==
    [src |-> "none", form |-> "none", bytes |-> <<>>, stream |-> <<>>,
     live |-> {}, pel |-> <<>>, global |-> <<>>]

NoDecode ==
    [done |-> FALSE, err |-> "", calls |-> <<>>, fallible |-> 0, failAt |-> 0,
     pos |-> 0]

IdleEncoder ==
    [phase |-> "idle", s |-> NewEncoder7, ce |-> <<>>, se |-> <<>>,
     plan |-> <<>>, order |-> <<>>, next |-> 0, log |-> <<>>]

(***************************************************************************)
(* Wire bytes of streams that the writers of the library do not produce:   *)
(* entries with the deleted flag, the three stream types, and groups whose *)
(* global PEL is given apart from the PELs of the consumers.               *)
(***************************************************************************)
LenB(x) == GetBuffer(writeLen(NewWriter, x))

StrB(str) == GetBuffer(WriteString(NewWriter, str))

LpInt(v) == GetBuffer(writeListpackIntEntry(NewWriter, v).w)

LpStr(str) == GetBuffer(writeListpackEntry(NewWriter, str).w)

RECURSIVE ConcatMap(_, _, _)
ConcatMap(Op(_), items, i) ==
    IF i > Len(items) THEN <<>>
    ELSE Op(items[i]) \o ConcatMap(Op, items, i + 1)

IDB(id) == id.Millis \o id.Seq

CraftPack(pk) ==
    LET nf == Len(pk.Value) \div 2
        names == [i \in 1..nf |-> pk.Value[2 * i - 1]]
        values == [i \in 1..nf |-> pk.Value[2 * i]]
    IN  (CHOOSE the \in {
        (CHOOSE the \in {
            StrB(IDB(pk.ID)) \o StrB(lp)
          : lp \in {LE32(Len(body) + 6) \o LE16(nf + nf + 8) \o body} } : TRUE)
          : body \in {LpInt(IF pk.deleted THEN 0 ELSE 1)
                        \o LpInt(IF pk.deleted THEN 1 ELSE 0) \o LpInt(nf)
                        \o ConcatMap(LpStr, names, 1) \o LpInt(0)
                        \o LpInt(IF pk.deleted THEN 3 ELSE 2) \o LpInt(0) \o LpInt(0)
                        \o ConcatMap(LpStr, values, 1) \o LpInt(3 + nf)
                        \o <<listpackEnd>>} } : TRUE)

CraftGlobal(pe) ==
    IDB(pe.ID) \o Swap64(pe.DeliveryTime) \o LenB(pe.DeliveryCount)

CraftConsumer(t, c) ==
    StrB(c.Name) \o Swap64(c.SeenTime)
      \o (IF t >= TypeStreamListpacks3 THEN Swap64(c.ActiveTime) ELSE <<>>)
      \o LenB(U64(Len(c.IDs))) \o ConcatMap(IDB, c.IDs, 1)

CraftGroup(t, g) ==
    LET consumer(c) == CraftConsumer(t, c)
    IN  StrB(g.Name) \o LenB(g.LastID.Millis) \o LenB(g.LastID.Seq)
          \o (IF t >= TypeStreamListpacks2 THEN LenB(g.EntriesRead) ELSE <<>>)
          \o LenB(U64(Len(g.Global))) \o ConcatMap(CraftGlobal, g.Global, 1)
          \o LenB(U64(Len(g.Consumers)))
          \o ConcatMap(consumer, g.Consumers, 1)

\* <type><packs><length><last id>[<first id><max deleted id><added>]<groups>
CraftStream(cs) ==
    LET group(g) == CraftGroup(cs.t, g)
    IN  <<cs.t>> \o LenB(U64(Len(cs.packs)))
          \o ConcatMap(CraftPack, cs.packs, 1)
          \o LenB(U64(Len(cs.packs))) \o LenB(U64(1)) \o LenB(U64(1))
          \o (IF cs.t >= TypeStreamListpacks2
              THEN LenB(U64(0)) \o LenB(U64(0)) \o LenB(U64(0))
                     \o LenB(U64(0)) \o LenB(U64(1))
              ELSE <<>>)
          \o LenB(U64(Len(cs.groups))) \o ConcatMap(group, cs.groups, 1)

CraftedStreams ==
    {[t |-> t,
      packs |-> <<[ID |-> id, Value |-> <<<<102>>, <<118>>>>,
                   deleted |-> del]>>,
      groups |-> <<[Name |-> <<103>>, LastID |-> StreamID(1, 1),
                    EntriesRead |-> U64(1),
                    Global |-> [k \in DOMAIN glob |->
                                   [ID |-> glob[k], DeliveryTime |-> U64(1),
                                    DeliveryCount |-> U64(2)]],
                    Consumers |-> <<[Name |-> <<97>>, SeenTime |-> U64(5),
                                     ActiveTime |-> U64(7),
                                     IDs |-> <<StreamID(1, 1)>>]>>]>>] :
        t \in {TypeStreamListpacks, TypeStreamListpacks2, TypeStreamListpacks3},
        id \in StreamIDs, del \in BOOLEAN,
        glob \in {<<>>, <<StreamID(1, 1)>>}}

(***************************************************************************)
(* Buffer specification: one file, read through a file-backed and a        *)
(* memory-backed buffer that receive the same sequence of Get requests.    *)
(***************************************************************************)
RECURSIVE FileBytes(_, _)
FileBytes(len, seed) ==
    IF len = 0 THEN <<>>
    ELSE FileBytes(len - 1, seed) \o <<(seed + 37 * len) % 256>>

FileSeeds == {1, 200}

NoGet ==
    [n |-> 0, pos0 |-> 0, calc0 |-> newFileBackedBuffer(0, 1).crcCalc,
     fval |-> <<>>, ferr |-> "", fpos |-> 0,
     fcalc |-> newFileBackedBuffer(0, 1).crcCalc,
     mpos0 |-> 0, mval |-> <<>>, merr |-> "", mpos |-> 0, calls |-> 0]

BufInit ==
    /\ \E len \in 0..MaxFileLen, seed \in FileSeeds :
           bfile = FileBytes(len, seed)
    /\ \E cap \in 1..MaxBufCap : fb = newFileBackedBuffer(Len(bfile), cap)
    /\ mb = newMemoryBackedBuffer(bfile)
    /\ lastGet = NoGet
    /\ wire = NoPayload
    /\ dec = NoDecode
    /\ encoder = IdleEncoder
    /\ rf = IdleRead
    /\ call = NoCall
    /\ vf = NoVerify

\* the same Get(n) on both buffers; calc0 and fcalc are the crcCalculator of
\* the file-backed one before and after the call
BufGet ==
    /\ ~fb.panicked
    /\ \E n \in (-1)..MaxGet :
         \E f \in {fileBackedBuffer_Get(fb, bfile, n)} :
         \E m \in {memoryBackedBuffer_Get(mb, n)} :
             /\ fb' = f.b
             /\ mb' = m.b
             /\ lastGet' =
                  [n |-> n, pos0 |-> fileBackedBuffer_Pos(fb),
                   calc0 |-> fb.crcCalc,
                   fval |-> f.val, ferr |-> f.err,
                   fpos |-> fileBackedBuffer_Pos(f.b),
                   fcalc |-> f.b.crcCalc,
                   mpos0 |-> mb.pos,
                   mval |-> m.val, merr |-> m.err, mpos |-> m.b.pos,
                   calls |-> MinInt(lastGet.calls + 1, 2)]
    /\ UNCHANGED <<call, vf, bfile, wire, dec, encoder, rf>>

\* DoNotCalcCrc on the file-backed buffer (a no-op on the memory-backed one)
BufDoNotCalcCrc ==
    /\ ~fb.panicked
    /\ ~fb.crcCalc.doNotUpdate
    /\ fb' = fileBackedBuffer_DoNotCalcCrc(fb)
    /\ UNCHANGED <<call, vf, bfile, mb, lastGet, wire, dec, encoder, rf>>

BufNext == BufGet \/ BufDoNotCalcCrc

SpecBuffer == BufInit /\ [][BufNext]_vars

\* C9: Get(n) that fits in the known length returns exactly the bytes
\* [position, position+n) and advances the position by n, on the file-backed
\* and on the memory-backed buffer; a Get that does not fit returns the
\* unexpected-EOF error and leaves position and running CRC unchanged.
C9_GetContract ==
    lastGet.calls >= 1 =>
      /\ IF lastGet.pos0 + lastGet.n <= Len(bfile)
         THEN /\ lastGet.ferr = ""
              /\ lastGet.fval =
                   SubSeq(bfile, lastGet.pos0 + 1, lastGet.pos0 + lastGet.n)
              /\ lastGet.fpos = lastGet.pos0 + lastGet.n
         ELSE /\ lastGet.ferr = ErrUnexpectedEOF
              /\ lastGet.fpos = lastGet.pos0
              /\ crcCalculator_Crc(lastGet.fcalc)
                   = crcCalculator_Crc(lastGet.calc0)
      /\ IF lastGet.mpos0 + lastGet.n <= Len(bfile)
         THEN /\ lastGet.merr = ""
              /\ lastGet.mval =
                   SubSeq(bfile, lastGet.mpos0 + 1, lastGet.mpos0 + lastGet.n)
              /\ lastGet.mpos = lastGet.mpos0 + lastGet.n
         ELSE /\ lastGet.merr = ErrUnexpectedEOF
              /\ lastGet.mpos = lastGet.mpos0

\* C10: once all L bytes of a file of known length L >= 8 have been consumed
\* through the file-backed buffer with CRC calculation enabled, Crc() is the
\* CRC-64 of the first L-8 bytes, whatever the window capacity and however
\* the reads were split.
C10_CrcExcludesFooter ==
    ( /\ fb.filePos = fb.fileLen
      /\ fb.fileLen >= crcLen
      /\ ~fb.crcCalc.doNotUpdate
      /\ ~fb.panicked )
    => fileBackedBuffer_Crc(fb) =
         getCRC(Zero64, SubSeq(bfile, 1, Len(bfile) - crcLen))

\* C11: for every file content, window capacity and sequence of Get sizes,
\* the file-backed buffer returns the same byte slice, the same error and
\* the same Pos() as the memory-backed buffer over the same bytes.
C11_FileBackedRefinesMemoryBacked ==
    lastGet.calls >= 1 =>
      /\ lastGet.fval = lastGet.mval
      /\ lastGet.ferr = lastGet.merr
      /\ lastGet.fpos = lastGet.mpos

(***************************************************************************)
(* Stream specification.                                                   *)
(***************************************************************************)
\* the variables of the other specifications, at rest
BufIdle ==
    /\ bfile = <<>>
    /\ fb = newFileBackedBuffer(0, 1)
    /\ mb = newMemoryBackedBuffer(<<>>)
    /\ lastGet = NoGet

bufVars == <<bfile, fb, mb, lastGet>>

StreamInit ==
    /\ BufIdle
    /\ wire = NoPayload
    /\ dec = NoDecode
    /\ encoder = IdleEncoder
    /\ rf = IdleRead
    /\ call = NoCall
    /\ vf = NoVerify

\* what a Stream value says about its pending entries: the IDs of the
\* entries, the IDs of every consumer's PEL, and the IDs of the global PEL
\* the writers derive from them
PELOfStream(stream) ==
    [g \in DOMAIN stream.Groups |->
        [c \in DOMAIN stream.Groups[g].Consumers |->
            [p \in DOMAIN stream.Groups[g].Consumers[c].PendingEntries |->
                stream.Groups[g].Consumers[c].PendingEntries[p].Entry.ID]]]

IDsOfPEL(pel) ==
    [g \in DOMAIN pel |->
        UNION {{pel[g][c][p] : p \in DOMAIN pel[g][c]} : c \in DOMAIN pel[g]}]

PayloadOfStream(src, form, bytes, stream) ==
    [src |-> src, form |-> form, bytes |-> bytes, stream |-> stream,
     live |-> {stream.Entries[i].ID : i \in DOMAIN stream.Entries},
     pel |-> PELOfStream(stream),
     global |-> IDsOfPEL(PELOfStream(stream))]

PayloadOfCraft(cs) ==
    [src |-> "crafted", form |-> "value", bytes |-> CraftStream(cs),
     stream |-> cs,
     live |-> {cs.packs[i].ID : i \in {j \in DOMAIN cs.packs :
                                           ~cs.packs[j].deleted}},
     pel |-> [g \in DOMAIN cs.groups |->
                 [c \in DOMAIN cs.groups[g].Consumers |->
                     cs.groups[g].Consumers[c].IDs]],
     global |-> [g \in DOMAIN cs.groups |->
                    {cs.groups[g].Global[k].ID :
                        k \in DOMAIN cs.groups[g].Global}]]

\* w.WriteType(TypeStreamListpacks); w.WriteStream(stream); w.GetBuffer()
SWriteStream ==
    /\ wire.src = "none"
    /\ encoder.phase = "idle"
    /\ \E stream \in Streams, order \in PELOrders :
         \E w \in {WriteStream(WriteType(NewWriter, TypeStreamListpacks),
                               stream, <<order>>)} :
             /\ w.err = ""
             /\ wire' = PayloadOfStream("WriteStream", "value",
                                           GetBuffer(w), stream)
    /\ UNCHANGED <<call, vf, bufVars, dec, encoder, rf>>

\* encoder.BeginStream(key, nil)
SEncBeginStream ==
    /\ wire.src = "none"
    /\ encoder.phase = "idle"
    /\ \E stream \in Streams, order \in PELOrders :
         \E b \in {FileEncoder_BeginStream(NewEncoder7, SKey, <<>>)} :
             encoder' = [encoder EXCEPT !.phase = "entries", !.s = b.s, !.se = b.se,
                                !.plan = stream, !.order = order, !.next = 1]
    /\ UNCHANGED <<call, vf, bufVars, wire, dec, rf>>

\* streamEncoder.WriteEntry(entry)
SEncWriteEntry ==
    /\ encoder.phase = "entries"
    /\ encoder.next <= Len(encoder.plan.Entries)
    /\ \E x \in {StreamEncoder_WriteEntry(encoder.se, encoder.s,
                                          encoder.plan.Entries[encoder.next])} :
           encoder' = [encoder EXCEPT !.s = x.s, !.se = x.se, !.next = encoder.next + 1]
    /\ UNCHANGED <<call, vf, bufVars, wire, dec, rf>>

\* streamEncoder.WriteMetadata(length, lastID)
SEncWriteMetadata ==
    /\ encoder.phase = "entries"
    /\ encoder.next > Len(encoder.plan.Entries)
    /\ encoder' = [encoder EXCEPT
                 !.phase = "metadata",
                 !.s = StreamEncoder_WriteMetadata(encoder.s, encoder.plan.Length,
                                                   encoder.plan.LastID)]
    /\ UNCHANGED <<call, vf, bufVars, wire, dec, rf>>

\* streamEncoder.WriteGroups(groups)
SEncWriteGroups ==
    /\ encoder.phase = "metadata"
    /\ encoder' = [encoder EXCEPT
                 !.phase = "groups",
                 !.s = StreamEncoder_WriteGroups(encoder.s, encoder.plan.Groups,
                                                 <<encoder.order>>)]
    /\ UNCHANGED <<call, vf, bufVars, wire, dec, rf>>

\* streamEncoder.Close(), and the flush of the bufio.Writer that makes the
\* record visible in the file
SEncClose ==
    /\ encoder.phase = "groups"
    /\ \E s1 \in {StreamEncoder_Close(encoder.se, encoder.s)} :
       \E w \in {FileWriter_Flush(s1.writer)} :
           /\ encoder' = [encoder EXCEPT !.phase = "closed",
                                 !.s = [s1 EXCEPT !.writer = w]]
           /\ wire' = PayloadOfStream("StreamEncoder", "record", w.file,
                                         encoder.plan)
    /\ UNCHANGED <<call, vf, bufVars, dec, rf>>

\* a stream value that arrives as bytes
SCraft ==
    /\ wire.src = "none"
    /\ encoder.phase = "idle"
    /\ \E cs \in CraftedStreams : wire' = PayloadOfCraft(cs)
    /\ UNCHANGED <<call, vf, bufVars, dec, encoder, rf>>

\* ReadValue(key, payload, handler) on a value, the record reader of
\* ReadFile on a record; the failAt-th callback of the handler fails
SDecode ==
    /\ wire.src # "none"
    /\ ~dec.done
    /\ \E failAt \in 0..MaxFail :
         \E hs \in {newHandler(FALSE, failAt)} :
         \E x \in {IF wire.form = "value"
                   THEN ReadValue(SKey, wire.bytes, hs)
                   ELSE readRecord(wire.bytes, hs)} :
             dec' = [done |-> TRUE, err |-> x.err, calls |-> x.hs.calls,
                     fallible |-> x.hs.fallible, failAt |-> failAt,
                     pos |-> Consumed(x.r)]
    /\ UNCHANGED <<call, vf, bufVars, wire, encoder, rf>>

StreamNext ==
    \/ SWriteStream
    \/ SEncBeginStream
    \/ SEncWriteEntry
    \/ SEncWriteMetadata
    \/ SEncWriteGroups
    \/ SEncClose
    \/ SCraft
    \/ SDecode

SpecStream == StreamInit /\ [][StreamNext]_vars

\* the objects the callbacks named h received, in the order of the calls
RECURSIVE Delivered(_, _, _)
Delivered(calls, h, i) ==
    IF i > Len(calls) THEN <<>>
    ELSE IF calls[i].h = h THEN <<calls[i].obj>> \o Delivered(calls, h, i + 1)
    ELSE Delivered(calls, h, i + 1)

EndingCallbacks == {"ListEnding", "ZsetEnding", "StreamEnding"}

\* the IDs of the pending entries a delivered group carries, per consumer
DeliveredPEL(group) ==
    [c \in DOMAIN group.Consumers |->
        [p \in DOMAIN group.Consumers[c].PendingEntries |->
            group.Consumers[c].PendingEntries[p].Entry.ID]]

\* some consumer's PEL of the decoded stream names an ID outside ids[g]
PELOutside(ids) ==
    \E g \in DOMAIN wire.pel : \E c \in DOMAIN wire.pel[g] :
        \E p \in DOMAIN wire.pel[g][c] : wire.pel[g][c][p] \notin ids[g]

\* the failAt-th fallible callback of the decode was invoked
CallbackFailed == dec.done /\ dec.failAt >= 1 /\ dec.fallible >= dec.failAt

(***************************************************************************)
(* C5: when a handler callback returns an error (here the callback of a    *)
(* stream entry or of a stream group), the decode returns that error and   *)
(* no further callback is invoked: the failing call is the last call.      *)
(***************************************************************************)
C5_CallbackErrorAborts ==
    CallbackFailed =>
        /\ dec.err = ErrHandler
        /\ dec.fallible = dec.failAt
        /\ dec.calls[Len(dec.calls)].h \notin EndingCallbacks

(***************************************************************************)
(* C6: decoding a stream in which a consumer's PEL names an ID that is not *)
(* the ID of a live entry of the stream returns an error.                  *)
(***************************************************************************)
C6_PELOutsideStreamFails ==
    (dec.done /\ PELOutside([g \in DOMAIN wire.pel |-> wire.live]))
        => dec.err # ""

(***************************************************************************)
(* C7: decoding a stream in which a consumer's PEL names an ID that is not *)
(* in the global PEL of its group returns an error, and a delivered group  *)
(* carries, consumer by consumer, the pending IDs that are on the wire.    *)
(***************************************************************************)
C7_PELOutsideGlobalFails ==
    /\ (dec.done /\ PELOutside(wire.global)) => dec.err # ""
    /\ \A i \in DOMAIN dec.calls :
           dec.calls[i].h = "StreamGroup" =>
               \E g \in DOMAIN wire.pel :
                   DeliveredPEL(dec.calls[i].obj) = wire.pel[g]

(***************************************************************************)
(* C8: decoding what Writer.WriteStream or the StreamEncoder wrote for a   *)
(* stream whose pending entries all name entries of the stream delivers    *)
(* the entries and the groups of that stream, field by field.              *)
(***************************************************************************)
C8_StreamRoundTrip ==
    (/\ dec.done
     /\ dec.failAt = 0
     /\ wire.src \in {"WriteStream", "StreamEncoder"}
     /\ ~PELOutside([g \in DOMAIN wire.pel |-> wire.live]))
        => /\ dec.err = ""
           /\ Delivered(dec.calls, "StreamEntry", 1) = wire.stream.Entries
           /\ Delivered(dec.calls, "StreamGroup", 1) = wire.stream.Groups

(***************************************************************************)
(* Read specification: ReadFile on snapshot files given as bytes.  A file  *)
(* is described by its version, the script of the items between header    *)
(* and EOF op-code, whether the redis-ver field that Redis writes first    *)
(* comes before them (pre), and the kind of its CRC footer; raw files are  *)
(* given byte by byte.                                                     *)
(***************************************************************************)
MaxScript == 3
MaxReadFail == 2

KeyA == <<97>>

KeyB == <<98>>

\* an expiry in milliseconds whose time.Duration does not fit in 64 bits
BigMillis == <<128, 0, 0, 0, 0, 0, 0, 5>>

ItemBytes(item) ==
    IF item = "sel0" THEN <<typeOpCodeSelectDB>> \o LenB(U64(0))
    ELSE IF item = "sel1" THEN <<typeOpCodeSelectDB>> \o LenB(U64(1))
    ELSE IF item = "expMS" THEN <<typeOpCodeExpireTimeMS>> \o Swap64(U64(7))
    ELSE IF item = "expBig" THEN <<typeOpCodeExpireTimeMS>> \o Swap64(BigMillis)
    ELSE IF item = "expS" THEN <<typeOpCodeExpireTime>> \o LE32(2)
    ELSE IF item = "str" THEN <<TypeString>> \o StrB(KeyA) \o StrB(<<118>>)
    ELSE IF item = "list"
    THEN <<TypeList>> \o StrB(KeyB) \o LenB(U64(2)) \o StrB(<<120>>)
             \o StrB(<<121>>)
    ELSE IF item = "freq" THEN <<typeOpCodeFreq, 5>>
    ELSE IF item = "idle" THEN <<typeOpCodeIdle>> \o LenB(U64(3))
    ELSE IF item = "aux" THEN <<typeOpCodeAux>> \o StrB(<<99>>) \o StrB(<<100>>)
    ELSE IF item = "resize"
    THEN <<typeOpCodeResizeDB>> \o LenB(U64(1)) \o LenB(U64(0))
    ELSE IF item = "moduleAux"
    THEN <<typeOpCodeModuleAux>> \o LenB(U64(1)) \o LenB(U64(moduleOpCodeUInt))
             \o LenB(U64(9)) \o LenB(U64(moduleOpCodeEOF))
    ELSE IF item = "function2" THEN <<typeOpCodeFunction2>> \o StrB(<<102>>)
    ELSE IF item = "preGA" THEN <<typeOpCodeFunctionPreGA>>
    ELSE <<22>>

MainItems == {"sel0", "sel1", "expMS", "expS", "str", "list", "freq"}

Records == {"str", "list"}

Scripts ==
    UNION {[1..n -> MainItems] : n \in 0..MaxScript}
    \cup {<<"sel1", a, b, c>> :
              a \in Records, b \in {"sel0", "sel1", "expS"}, c \in Records}
    \cup {<<a, b, c, "str">> :
              a \in {"expMS", "expBig"}, b \in {"expS", "freq", "sel1"},
              c \in Records}
    \cup {<<"aux">>, <<"resize">>, <<"idle">>, <<"moduleAux">>,
          <<"function2", "str">>, <<"preGA">>, <<"unknown">>,
          <<"expBig", "str">>, <<"aux", "expMS", "idle", "str">>}

\* version and footer of the files: no footer below version 5
Footers ==
    {<<4, "none">>, <<5, "zero">>, <<5, "right">>, <<5, "wrong">>,
     <<Version, "right">>}

RawFiles ==
    {<<>>, <<82, 69, 68>>, <<82, 69, 68, 73, 88, 48, 48, 48, 57, 255>>,
     magicStr \o <<48, 48, 97, 49, 255>>, magicStr \o <<48, 48, 48, 48, 255>>,
     magicStr \o <<48, 48, 49, 51, 255>>, magicStr \o <<45, 48, 48, 49, 255>>,
     magicStr \o <<48, 48, 48, 52>>, magicStr \o <<48, 48, 48, 57>>,
     magicStr \o <<48, 48, 48, 52, TypeString, 1, 97>>}

ShortScripts == {s \in Scripts : Len(s) <= 1}

\* the auxiliary field redis-ver with the value 7.0.0
Preamble ==
    <<typeOpCodeAux>> \o StrB(<<114, 101, 100, 105, 115, 45, 118, 101, 114>>)
        \o StrB(<<55, 46, 48, 46, 48>>)

\* the files that begin with the preamble have 18 bytes or more between
\* header and footer; of the others, those of a short script have fewer
\* than 8
FileDescs ==
    {[version |-> Version, script |-> s, crc |-> "zero", raw |-> <<>>,
      pre |-> TRUE] : s \in Scripts}
    \cup {[version |-> f[1], script |-> s, crc |-> f[2], raw |-> <<>>,
           pre |-> pre] :
              s \in ShortScripts, f \in Footers, pre \in BOOLEAN}
    \cup {[version |-> 0, script |-> <<>>, crc |-> "raw", raw |-> b,
           pre |-> FALSE] : b \in RawFiles}

\* header, items and EOF op-code of a described file
BodyOf(desc) ==
    magicStr \o VersionDigits(desc.version)
        \o (IF desc.pre THEN Preamble ELSE <<>>)
        \o ConcatMap(ItemBytes, desc.script, 1) \o <<typeOpCodeEOF>>

\* a word that differs from crc and from zero
WrongCRC(crc) ==
    IF crc = <<0, 0, 0, 0, 0, 0, 0, 1>> THEN <<0, 0, 0, 0, 0, 0, 0, 2>>
    ELSE [crc EXCEPT ![8] = IF crc[8] = 1 THEN 0 ELSE 1]

FileOf(desc) ==
    IF desc.crc = "raw" THEN desc.raw
    ELSE (CHOOSE the \in {
             IF desc.crc = "none" THEN body
             ELSE IF desc.crc = "zero" THEN body \o Zero64
             ELSE IF desc.crc = "right"
             THEN body \o Swap64(getCRC(Zero64, body))
             ELSE body \o Swap64(WrongCRC(getCRC(Zero64, body)))
           : body \in {BodyOf(desc)} } : TRUE)

ReadInit ==
    /\ BufIdle
    /\ wire = NoPayload
    /\ dec = NoDecode
    /\ encoder = IdleEncoder
    /\ rf = IdleRead
    /\ call = NoCall
    /\ vf = NoVerify

\* ReadFile(name, handler) up to the op-code loop
ROpen ==
    /\ rf.status = "idle"
    /\ encoder.phase = "idle"
    /\ \E desc \in FileDescs :
         \E file \in {FileOf(desc)} :
           \E partial \in BOOLEAN, failAt \in 0..MaxReadFail :
             \E st \in {ReadFile_open(file, newHandler(partial, failAt))} :
                 rf' = [st EXCEPT !.input = desc]
    /\ UNCHANGED <<call, vf, bufVars, wire, dec, encoder>>

\* one iteration of the op-code loop of ReadFile
ROpCode ==
    /\ rf.status = "loop"
    /\ \E n \in {ReadFile_step(rf)} : rf' = n
    /\ UNCHANGED <<call, vf, bufVars, wire, dec, encoder>>

ReadNext ==
    \/ ROpen
    \/ ROpCode

SpecRead == ReadInit /\ [][ReadNext]_vars

\* the iterations of the op-code loop so far, the callbacks so far, and the
\* bytes the buffer of ReadFile reads
Trace == rf.trace

Calls == rf.hs.calls

\* the i-th iteration read the type byte of a record
IsRecordStep(i) == Trace[i].t \in 0..TypeStreamListpacks3

\* the i-th iteration went through without an error
Completed(i) == i < Len(Trace) \/ rf.status = "loop" \/ rf.err = ""

\* the callbacks made by the i-th iteration
CallsOf(i) == ((IF i = 1 THEN 0 ELSE Trace[i - 1].calls) + 1)..Trace[i].calls

MaxOf(S) == CHOOSE x \in S : \A y \in S : y <= x

\* the bytes the i-th iteration read after its type byte
OperandOf(i) ==
    SubSeq(rf.file, headerLen + Trace[i].from + 2, headerLen + Trace[i].to)

\* the index of the select-db op-code read by the k-th iteration
SelectIndex(k) == readLen(newValueReader(OperandOf(k))).val

\* the database selected when the i-th iteration begins
CurrentDB(i) ==
    LET sels == {k \in 1..(i - 1) : Trace[k].t = typeOpCodeSelectDB}
    IN  IF sels = {} THEN Zero64 ELSE SelectIndex(MaxOf(sels))

\* ReadFile returned from the EOF op-code
AtEOF ==
    /\ rf.status = "returned"
    /\ Len(Trace) > 0
    /\ Trace[Len(Trace)].t = typeOpCodeEOF

(***************************************************************************)
(* C2: at the EOF op-code of a file of version 5 or more, ReadFile reads   *)
(* the last 8 bytes as a little-endian word and succeeds exactly when the  *)
(* word is zero or the CRC-64 of the bytes from the signature through the  *)
(* EOF byte, and fails with the bad-CRC error otherwise; below version 5   *)
(* it succeeds without reading a CRC.                                      *)
(***************************************************************************)
C2_EOFChecksCRC ==
    AtEOF =>
        IF rf.input.version >= 5
        THEN LET stored == Swap64(SubSeq(rf.file, Len(rf.file) - crcLen + 1,
                                         Len(rf.file)))
                 covered == SubSeq(rf.file, 1,
                                   headerLen + Trace[Len(Trace)].to)
             IN  /\ rf.crcRead
                 /\ (rf.err = "") <=>
                        (stored = Zero64 \/ stored = getCRC(Zero64, covered))
                 /\ rf.err # "" => rf.err = errBadCRC
        ELSE rf.err = "" /\ ~rf.crcRead

(***************************************************************************)
(* C3: a select-db op-code with a non-zero index makes ReadFile fail when  *)
(* the caller's handler does not allow partial read; otherwise every       *)
(* callback of a record read while a non-zero database is selected goes to *)
(* the null handler, and every callback of a record read while database 0  *)
(* is selected goes to the caller's handler.                               *)
(***************************************************************************)
C3_SelectDBRoutesRecords ==
    /\ \A k \in DOMAIN Trace :
           (/\ Trace[k].t = typeOpCodeSelectDB
            /\ Trace[k].to > Trace[k].from + 1
            /\ SelectIndex(k) # Zero64
            /\ ~rf.hs.partial)
               => /\ k = Len(Trace)
                  /\ rf.status = "returned"
                  /\ rf.err = errMultiDB
    /\ \A i \in DOMAIN Trace :
           IsRecordStep(i) =>
               \A c \in CallsOf(i) :
                   Calls[c].to = IF CurrentDB(i) # Zero64 THEN "nop"
                                 ELSE "caller"

C3_Witness ==
    /\ rf.status = "returned"
    /\ rf.err = ""
    /\ \E i, j \in DOMAIN Trace :
           /\ i < j
           /\ IsRecordStep(i) /\ IsRecordStep(j)
           /\ CurrentDB(i) # Zero64 /\ CurrentDB(j) = Zero64
           /\ CallsOf(i) # {} /\ CallsOf(j) # {}
           /\ \A c \in CallsOf(i) : Calls[c].to = "nop"
           /\ \A c \in CallsOf(j) : Calls[c].to = "caller"

\* the expiry op-codes read after the previous record and before the i-th
\* iteration
ExpiriesBefore(i) ==
    LET recs == {j \in 1..(i - 1) : IsRecordStep(j)}
        last == IF recs = {} THEN 0 ELSE MaxOf(recs)
    IN  {k \in (last + 1)..(i - 1) :
             Trace[k].t \in {typeOpCodeExpireTime, typeOpCodeExpireTimeMS}}

\* the value of the expiry op-code read by the k-th iteration, in the unit
\* of the op-code: milliseconds for 252 and seconds for 253
ExpiryOf(k) ==
    IF Trace[k].t = typeOpCodeExpireTimeMS THEN Swap64(OperandOf(k))
    ELSE Swap64(OperandOf(k) \o <<0, 0, 0, 0>>)

\* the decimal digits that one unit of the op-code read by the k-th
\* iteration has more than a nanosecond
UnitDigits(k) == IF Trace[k].t = typeOpCodeExpireTimeMS THEN 6 ELSE 9

\* d is the time.Duration of v units of n decimal digits more than a
\* nanosecond: d is not negative and n divisions of d by 10 leave no
\* remainder and give v
RECURSIVE IsDurationOf(_, _, _)
IsDurationOf(d, v, n) ==
    IF n = 0 THEN d = v /\ d[1] < 128
    ELSE (CHOOSE the \in {
             q.rem = 0 /\ IsDurationOf(q.quot, v, n - 1)
           : q \in {DivMod10(d)} } : TRUE)

\* the i-th iteration read a record, and HandleExpireTime was invoked for
\* it exactly when an expiry op-code came before it; it is then the last
\* callback of the record, with the key of the record
ExpiryCallbackOf(i) ==
    LET expired == {c \in CallsOf(i) : Calls[c].h = "ExpireTime"}
    IN  IF ExpiriesBefore(i) = {} THEN expired = {}
        ELSE /\ expired = {Trace[i].calls}
             /\ Cardinality(CallsOf(i)) >= 2
             /\ Calls[Trace[i].calls].key = Calls[Trace[i].calls - 1].key

\* the duration that HandleExpireTime was given for the i-th iteration is
\* the value of the most recent expiry op-code before it
ExpiryValueOf(i) ==
    (CHOOSE the \in {
        IsDurationOf(Calls[Trace[i].calls].args[1], ExpiryOf(k),
                     UnitDigits(k))
      : k \in {MaxOf(ExpiriesBefore(i))} } : TRUE)

(***************************************************************************)
(* C4: HandleExpireTime is invoked for a record exactly when an expiry     *)
(* op-code was read after the previous record and before the record's type *)
(* byte; it is then the last callback of the record, after the callbacks   *)
(* of its value, with the record's key and the value of the most recent    *)
(* such op-code as a duration.                                             *)
(***************************************************************************)
C4_ExpiryFollowsItsRecord ==
    \A i \in DOMAIN Trace :
        (IsRecordStep(i) /\ Completed(i)) =>
            /\ ExpiryCallbackOf(i)
            /\ ExpiriesBefore(i) # {} => ExpiryValueOf(i)

(***************************************************************************)
(* Encode specification: records are written through a FileEncoder between *)
(* Begin and Close, every collection closed before the next record, and    *)
(* the file is then read by ReadFile.  encoder.log lists the records       *)
(* written: [t, key, value], the value of a collection being the list of   *)
(* its fields in the order of the WriteField calls.                        *)
(***************************************************************************)
MaxRecords == 2
MaxFields == 2

\* the i-th field written to a collection
ElementAt(i) == <<119 + i>>

\* math.Float64bits(1.5)
ScoreBits == <<63, 248, 0, 0, 0, 0, 0, 0>>

CollectionTypes == {TypeList, TypeSet, TypeZset2, TypeHash}

\* what the clock reads when a record with an expiry is written
Clocks == {Zero64, U64(5)}

EncodeInit ==
    /\ BufIdle
    /\ wire = NoPayload
    /\ dec = NoDecode
    /\ encoder = IdleEncoder
    /\ rf = IdleRead
    /\ call = NoCall
    /\ vf = NoVerify

\* NewFileEncoder(path, redisVersion); encoder.Begin() when there is an
\* encoder
EBegin ==
    /\ encoder.phase = "idle"
    /\ \E redisVersion \in RedisVersions :
         \E n \in {NewFileEncoder(redisVersion)} :
             encoder' = IF n.err # ""
                        THEN [encoder EXCEPT !.phase = "refused"]
                        ELSE [encoder EXCEPT
                                !.phase = "begun",
                                !.s = FileEncoder_Begin(n.s, <<49>>)]
    /\ UNCHANGED <<call, vf, bufVars, wire, dec, rf>>

\* encoder.WriteStringEntry(key, value, expiry)
EWriteString ==
    /\ encoder.phase = "begun"
    /\ Len(encoder.log) < MaxRecords
    /\ \E value \in {<<>>, <<118>>}, expiry \in {<<>>, U64(7)} :
         \E now \in (IF expiry = <<>> THEN {Zero64} ELSE Clocks) :
         \E x \in {FileEncoder_WriteStringEntry(
                       [encoder.s EXCEPT !.clock = now], KeyA, value,
                       expiry)} :
             /\ x.err = ""
             /\ encoder' = [encoder EXCEPT
                              !.s = x.s,
                              !.log = Append(encoder.log,
                                          [t |-> TypeString, key |-> KeyA,
                                           value |-> value,
                                           expiry |-> expiry])]
    /\ UNCHANGED <<call, vf, bufVars, wire, dec, rf>>

\* encoder.WriteJSON(key, json, time.Time{})
EWriteJSON ==
    /\ encoder.phase = "begun"
    /\ Len(encoder.log) < MaxRecords
    /\ \E x \in {FileEncoder_WriteJSON(encoder.s, KeyA, <<49>>, <<>>)} :
           /\ x.err = ""
           /\ encoder' = [encoder EXCEPT
                            !.s = x.s,
                            !.log = Append(encoder.log,
                                        [t |-> TypeModule2, key |-> KeyA,
                                         value |-> <<49>>,
                                         expiry |-> <<>>])]
    /\ UNCHANGED <<call, vf, bufVars, wire, dec, rf>>

\* encoder.BeginList(key, time.Time{}), BeginSet, BeginSortedSet, BeginHash
EBeginCollection ==
    /\ encoder.phase = "begun"
    /\ Len(encoder.log) < MaxRecords
    /\ \E t \in CollectionTypes :
         \E x \in {FileEncoder_BeginCollection(encoder.s, t, KeyB, <<>>)} :
             /\ x.err = ""
             /\ encoder' = [encoder EXCEPT
                              !.phase = "collection",
                              !.s = x.s,
                              !.ce = x.ce,
                              !.log = Append(encoder.log,
                                          [t |-> t, key |-> KeyB,
                                           value |-> <<>>,
                                           expiry |-> <<>>])]
    /\ UNCHANGED <<call, vf, bufVars, wire, dec, rf>>

\* WriteFieldStr, WriteFieldStrFloat64 or WriteFieldStrStr on the open
\* collection
EWriteField ==
    /\ encoder.phase = "collection"
    /\ Len(encoder.log[Len(encoder.log)].value) < MaxFields
    /\ \E n \in {Len(encoder.log)} :
       \E e \in {ElementAt(Len(encoder.log[n].value) + 1)} :
       \E x \in {IF encoder.ce.kind = TypeZset2
                 THEN SortedSetEncoder_WriteFieldStrFloat64(
                          encoder.ce, encoder.s, e, ScoreBits)
                 ELSE IF encoder.ce.kind = TypeHash
                 THEN HashEncoder_WriteFieldStrStr(encoder.ce, encoder.s, e,
                                                   <<118>>)
                 ELSE CollectionEncoder_WriteFieldStr(encoder.ce, encoder.s,
                                                      e)} :
           encoder' = [encoder EXCEPT
                          !.s = x.s,
                          !.ce = x.ce,
                          !.log[n].value =
                              Append(@, IF encoder.ce.kind = TypeZset2
                                        THEN <<e, ScoreBits>>
                                        ELSE IF encoder.ce.kind = TypeHash
                                        THEN <<e, <<118>>>>
                                        ELSE <<e>>)]
    /\ UNCHANGED <<call, vf, bufVars, wire, dec, rf>>

\* Close() of the open collection
ECloseCollection ==
    /\ encoder.phase = "collection"
    /\ encoder' = [encoder EXCEPT
                     !.phase = "begun",
                     !.s = baseCollectionEncoder_Close(encoder.ce, encoder.s)]
    /\ UNCHANGED <<call, vf, bufVars, wire, dec, rf>>

\* encoder.Close()
EClose ==
    /\ encoder.phase = "begun"
    /\ encoder' = [encoder EXCEPT !.phase = "file",
                                  !.s = FileEncoder_Close(encoder.s)]
    /\ UNCHANGED <<call, vf, bufVars, wire, dec, rf>>

\* ReadFile(path, handler) on the file the encoder wrote, up to the op-code
\* loop
EOpen ==
    /\ encoder.phase = "file"
    /\ rf.status = "idle"
    /\ \E partial \in BOOLEAN :
         \E st \in {ReadFile_open(encoder.s.writer.file,
                                  newHandler(partial, 0))} :
             rf' = [st EXCEPT !.input = [version |-> Version,
                                         script |-> <<>>, crc |-> "zero",
                                         raw |-> <<>>, pre |-> FALSE]]
    /\ UNCHANGED <<call, vf, bufVars, wire, dec, encoder>>

EncodeNext ==
    \/ EBegin
    \/ EWriteString
    \/ EWriteJSON
    \/ EBeginCollection
    \/ EWriteField
    \/ ECloseCollection
    \/ EClose
    \/ EOpen
    \/ ROpCode

SpecEncode == EncodeInit /\ [][EncodeNext]_vars

\* what a handler is told, apart from the expiry: callback, key and
\* arguments
Told(ev) == [h |-> ev.h, key |-> ev.key, args |-> ev.args]

RECURSIVE ToldOf(_, _)
ToldOf(calls, i) ==
    IF i > Len(calls) THEN <<>>
    ELSE IF calls[i].h = "ExpireTime" THEN ToldOf(calls, i + 1)
    ELSE <<Told(calls[i])>> \o ToldOf(calls, i + 1)

\* what the handler of a reader is to be told of a written record
ToldOfRecord(rec) ==
    LET one(h, args) == [h |-> h, key |-> rec.key, args |-> args]
        fields(h) == [i \in DOMAIN rec.value |-> one(h, rec.value[i])]
        count == <<U64(Len(rec.value))>>
    IN  IF rec.t = TypeString THEN <<one("String", <<rec.value>>)>>
        ELSE IF rec.t = TypeModule2
        THEN <<one("Module", <<rec.value, JSONModuleMarker>>)>>
        ELSE IF rec.t = TypeList
        THEN <<one("ListEntryHandler", <<>>)>> \o fields("ListEntry")
                 \o <<one("ListEnding", count)>>
        ELSE IF rec.t = TypeSet
        THEN <<one("SetEntryHandler", <<>>)>> \o fields("SetEntry")
        ELSE IF rec.t = TypeHash
        THEN <<one("HashEntryHandler", <<>>)>> \o fields("HashEntry")
        ELSE <<one("ZsetEntryHandler", <<>>)>> \o fields("ZsetEntry")
                 \o <<one("ZsetEnding", count)>>

(***************************************************************************)
(* C1: ReadFile on the file of a closed FileEncoder succeeds and tells the *)
(* caller's handler the records written, in the order written, each with   *)
(* its key and its value, the fields of a collection in the order written, *)
(* and nothing else.                                                       *)
(***************************************************************************)
C1_EncoderRoundTrip ==
    (encoder.phase = "file" /\ rf.status = "returned") =>
        /\ rf.err = ""
        /\ ToldOf(rf.hs.calls, 1) = ConcatMap(ToldOfRecord, encoder.log, 1)
        /\ \A c \in DOMAIN rf.hs.calls : rf.hs.calls[c].to = "caller"

C1_Witness ==
    /\ encoder.phase = "file"
    /\ rf.status = "returned"
    /\ rf.err = ""
    /\ Len(encoder.log) = MaxRecords
    /\ \E n \in DOMAIN encoder.log :
           /\ encoder.log[n].t = TypeList
           /\ Len(encoder.log[n].value) = MaxFields
    /\ Len(rf.hs.calls) > MaxFields

(***************************************************************************)
(* LZ77 specification: decompressLZ77(inp, outLen) run one instruction at  *)
(* a time.  call.pre is the input index and the output before the latest   *)
(* turn of the loop.                                                       *)
(***************************************************************************)
MaxLzLen == 5
MaxOutLen == 4

\* control bytes of a literal run of 1 and of 2 bytes, of a short match of
\* 3 bytes and of a long match; they serve as data bytes too
LzBytes == {0, 1, 32, 224}

\* the shortest output a long match can end
LongOutLen == 10

RECURSIVE SeqsUpTo(_, _)
SeqsUpTo(S, n) ==
    IF n = 0 THEN {<<>>}
    ELSE SeqsUpTo(S, n - 1)
           \cup {Append(q, x) : q \in {t \in SeqsUpTo(S, n - 1) : Len(t) = n - 1},
                                x \in S}

LzInit ==
    /\ BufIdle
    /\ wire = NoPayload
    /\ dec = NoDecode
    /\ encoder = IdleEncoder
    /\ rf = IdleRead
    /\ vf = NoVerify
    /\ \E inp \in SeqsUpTo(LzBytes, MaxLzLen),
          outLen \in (0..MaxOutLen) \cup {LongOutLen} :
           call = [op |-> "decompressLZ77", inp |-> inp, outLen |-> outLen,
                   inpIdx |-> 0, out |-> <<>>, status |-> "running",
                   err |-> "", val |-> <<>>,
                   pre |-> [inpIdx |-> 0, out |-> <<>>]]

\* one turn of the loop "for inpIdx < inpLen"
LzInstruction ==
    /\ call.op = "decompressLZ77"
    /\ call.status = "running"
    /\ call.inpIdx < Len(call.inp)
    /\ \E s \in {lz77Step(call.inp, call.outLen, call.inpIdx, call.out)} :
           call' = IF s.err # ""
                   THEN [call EXCEPT !.status = "returned", !.err = s.err,
                                     !.val = <<>>,
                                     !.pre = [inpIdx |-> call.inpIdx,
                                              out |-> call.out]]
                   ELSE [call EXCEPT !.inpIdx = s.inpIdx, !.out = s.out,
                                     !.pre = [inpIdx |-> call.inpIdx,
                                              out |-> call.out]]
    /\ UNCHANGED <<bufVars, wire, dec, encoder, rf, vf>>

\* the exit of the loop and the test of the produced length
LzReturn ==
    /\ call.op = "decompressLZ77"
    /\ call.status = "running"
    /\ ~(call.inpIdx < Len(call.inp))
    /\ \E x \in {lz77Return(call.outLen, call.out)} :
           call' = [call EXCEPT !.status = "returned", !.err = x.err,
                                !.val = x.val]
    /\ UNCHANGED <<bufVars, wire, dec, encoder, rf, vf>>

LzNext == LzInstruction \/ LzReturn

SpecLZ77 == LzInit /\ [][LzNext]_vars

(***************************************************************************)
(* The instruction format, read off the input without running it: the      *)
(* bytes the instruction at index i occupies, the bytes it produces and    *)
(* how far back a match reaches.                                           *)
(***************************************************************************)
LzIsLiteral(inp, i) == inp[i + 1] < 32

LzIsLong(inp, i) == inp[i + 1] >= 224

\* number of input bytes of the instruction at i, control byte included
LzSize(inp, i) ==
    IF LzIsLiteral(inp, i) THEN 1 + (inp[i + 1] + 1)
    ELSE IF LzIsLong(inp, i) THEN 3 ELSE 2

\* number of bytes the instruction at i produces (its input being there)
LzProduces(inp, i) ==
    IF LzIsLiteral(inp, i) THEN inp[i + 1] + 1
    ELSE IF LzIsLong(inp, i) THEN 9 + inp[i + 2]
    ELSE (inp[i + 1] \div 32) + 2

\* distance from the end of the output to the first byte a match copies
LzDistance(inp, i) ==
    (inp[i + 1] % 32) * 256 + inp[i + LzSize(inp, i)] + 1

\* the instruction at i cannot be carried out with output out and limit n
LzFaulty(inp, n, i, out) ==
    \/ Len(inp) < i + LzSize(inp, i)
    \/ Len(out) + LzProduces(inp, i) > n
    \/ ~LzIsLiteral(inp, i) /\ LzDistance(inp, i) > Len(out)

(***************************************************************************)
(* C12: decompressLZ77(input, n) returns success only when the             *)
(* instructions consumed the input exactly and produced exactly n bytes;   *)
(* it returns the corrupt-content error with no output when an instruction *)
(* would push the output past n, needs input bytes that are not there or   *)
(* refers back before the start of the output, or when the input ends with *)
(* fewer than n bytes produced; the output never grows beyond n.           *)
(***************************************************************************)
C12_LZ77Decompression ==
    call.op = "decompressLZ77" =>
      /\ Len(call.out) <= call.outLen
      /\ (call.status = "returned" /\ call.err = "") =>
            /\ call.inpIdx = Len(call.inp)
            /\ Len(call.val) = call.outLen
            /\ call.val = call.out
      /\ (/\ call.status = "returned"
          /\ \/ /\ call.pre.inpIdx < Len(call.inp)
                /\ call.inpIdx = call.pre.inpIdx
                /\ LzFaulty(call.inp, call.outLen, call.pre.inpIdx,
                            call.pre.out)
             \/ /\ call.inpIdx = Len(call.inp)
                /\ Len(call.out) < call.outLen) =>
            /\ call.err = errCorruptContent
            /\ call.val = <<>>
      /\ (call.status = "returned" /\ call.err # "") =>
            /\ call.err = errCorruptContent
            /\ \/ Len(call.out) # call.outLen
               \/ LzFaulty(call.inp, call.outLen, call.inpIdx, call.out)

\* a successful run that ends with a long match copying overlapping bytes
C12_Witness ==
    /\ call.op = "decompressLZ77"
    /\ call.status = "returned"
    /\ call.err = ""
    /\ call.outLen = LongOutLen
    /\ call.inp = <<0, 0, 224, 0, 0>>
    /\ call.val = <<0, 0, 0, 0, 0, 0, 0, 0, 0, 0>>
(***************************************************************************)
(* Verifier specification: a verifier is given the calls a reader makes    *)
(* for a sequence of records, until a call fails.  Beside the verifier,    *)
(* vf keeps what was given to it: total is the number of bytes of the      *)
(* keys and elements given so far, entry the number of bytes of the        *)
(* elements (for a stream: of the groups) of the open record, prevEntry    *)
(* that number for the record before it, overKey that a key given so far   *)
(* was longer than max_key_size.                                           *)
(***************************************************************************)
MaxCalls == 4

DataLimits == {3, 30, 100}

EntryLimits == {2, 9, 25}

KeyLimits == {1, 2}

PELLimits == {1}

VKeys == {<<107>>, <<107, 107>>}

VElems == {<<>>, <<120>>, <<120, 121>>}

VEntries ==
    {[ID |-> StreamID(0, 0), Value |-> <<>>],
     [ID |-> StreamID(1, 1), Value |-> <<<<102>>, <<118>>>>]}

VStreamEntries ==
    <<[ID |-> StreamID(0, 0), Value |-> <<>>],
      [ID |-> StreamID(1, 1), Value |-> <<<<102>>, <<118>>>>]>>

VGroups ==
    {[Name |-> <<103>>, LastID |-> StreamID(1, 1), EntriesRead |-> U64(1),
      Consumers |-> cs] :
        cs \in {<<>>}
               \cup {<<ConsumerOf(VStreamEntries, 97, 0, ids)>> :
                         ids \in PendingLists}
               \cup {<<ConsumerOf(VStreamEntries, 97, 0, <<StreamID(1, 1)>>),
                       ConsumerOf(VStreamEntries, 98, 0, <<>>)>>}}

CollectionKinds == {"Hash", "HashWithExp", "List", "Set", "Zset"}

\* the arguments of the element closure of a collection
ElementArgs(kind) ==
    IF kind \in {"Hash", "HashWithExp"}
    THEN {<<f, x>> : f \in {<<102>>}, x \in VElems}
    ELSE IF kind = "Zset" THEN {<<e, ScoreBits>> : e \in VElems}
    ELSE {<<e>> : e \in VElems}

\* the bytes of one element: field and value of a hash field, 8 more for a
\* score or for the expiry of a hash field
ElementBytes(kind, args) ==
    IF kind = "Hash" THEN Len(args[1]) + Len(args[2])
    ELSE IF kind = "HashWithExp" THEN Len(args[1]) + Len(args[2]) + 8
    ELSE IF kind = "Zset" THEN Len(args[1]) + 8
    ELSE Len(args[1])

RECURSIVE SumOver(_, _)
\* the sum of the numbers of a sequence
SumOver(nums, i) ==
    IF i > Len(nums) THEN 0 ELSE nums[i] + SumOver(nums, i + 1)

\* the bytes of one pending entry, one consumer, one group
PendingBytes(pe) ==
    32 + SumOver([k \in DOMAIN pe.Entry.Value |-> Len(pe.Entry.Value[k])], 1)

ConsumerBytes(c) ==
    Len(c.Name) + 16
        + SumOver([p \in DOMAIN c.PendingEntries |->
                       PendingBytes(c.PendingEntries[p])], 1)

GroupBytes(g) ==
    Len(g.Name) + 24
        + SumOver([c \in DOMAIN g.Consumers |-> ConsumerBytes(g.Consumers[c])],
                  1)

\* the bytes of one stream entry: its values and 16 for its ID
EntryBytes(e) ==
    16 + SumOver([k \in DOMAIN e.Value |-> Len(e.Value[k])], 1)

NoLast ==
    [name |-> "", err |-> "", fn |-> "", total |-> 0, entry |-> 0,
     refused |-> FALSE]

VerifierInit ==
    /\ BufIdle
    /\ wire = NoPayload
    /\ dec = NoDecode
    /\ encoder = IdleEncoder
    /\ rf = IdleRead
    /\ call = NoCall
    /\ \E d \in DataLimits, e \in EntryLimits, k \in KeyLimits,
          p \in PELLimits :
         vf = [op |-> "handlers",
               v |-> newVerifier([MaxDataSize |-> d, MaxEntrySize |-> e,
                                  MaxKeySize |-> k, MaxStreamPELSize |-> p,
                                  AllowPartialVerify |-> FALSE,
                                  RequireStrictEOF |-> FALSE]),
               rec |-> "none", groupOpen |-> FALSE, total |-> 0, entry |-> 0,
               prevEntry |-> 0, n |-> 0, failed |-> FALSE, overKey |-> FALSE,
               last |-> NoLast]

\* what one call leaves in vf: c is the result of the verifier, total and
\* entry are the numbers of bytes after the call, refused tells that the
\* key or a pending entries list given to the call is over its limit
AfterCall(c, name, fn, total, entry, refused) ==
    [vf EXCEPT !.v = c.v, !.total = total, !.entry = entry, !.n = vf.n + 1,
               !.failed = c.err # "",
               !.overKey = vf.overKey \/ (refused /\ name # "StreamGroup"),
               !.last = [name |-> name, err |-> c.err, fn |-> fn,
                         total |-> total, entry |-> entry,
                         refused |-> refused]]

VCanCall ==
    /\ vf.op = "handlers"
    /\ ~vf.failed
    /\ vf.n < MaxCalls

\* HandleString(key, value)
VHandleString ==
    /\ VCanCall
    /\ \E key \in VKeys, value \in VElems :
         \E c \in {verifier_call(vf.v, "String", key, <<value>>, <<>>)} :
           vf' = [AfterCall(c, "String", "", vf.total + Len(key) + Len(value),
                            Len(value), Len(key) > vf.v.maxKeySize)
                    EXCEPT !.rec = "none", !.groupOpen = FALSE,
                           !.prevEntry = vf.entry]
    /\ UNCHANGED <<call, bufVars, wire, dec, encoder, rf>>

\* HandleModule(key, value, marker)
VHandleModule ==
    /\ VCanCall
    /\ \E key \in VKeys, value \in {<<123, 125>>} :
         \E c \in {verifier_call(vf.v, "Module", key, <<value, JSONModuleMarker>>,
                                 <<>>)} :
           vf' = [AfterCall(c, "Module", "", vf.total + Len(key) + Len(value),
                            Len(value), Len(key) > vf.v.maxKeySize)
                    EXCEPT !.rec = "none", !.groupOpen = FALSE,
                           !.prevEntry = vf.entry]
    /\ UNCHANGED <<call, bufVars, wire, dec, encoder, rf>>

\* HashEntryHandler(key), HashWithExpEntryHandler(key), ListEntryHandler(key),
\* SetEntryHandler(key), ZsetEntryHandler(key): a collection begins
VEntryHandler ==
    /\ VCanCall
    /\ \E kind \in CollectionKinds, key \in VKeys :
         \E name \in {IF kind = "Hash" THEN "HashEntryHandler"
                      ELSE IF kind = "HashWithExp"
                      THEN "HashWithExpEntryHandler"
                      ELSE IF kind = "List" THEN "ListEntryHandler"
                      ELSE IF kind = "Set" THEN "SetEntryHandler"
                      ELSE "ZsetEntryHandler"} :
         \E c \in {verifier_call(vf.v, name, key, <<>>, <<>>)} :
           vf' = [AfterCall(c, name, "", vf.total + Len(key), 0,
                            Len(key) > vf.v.maxKeySize)
                    EXCEPT !.rec = kind, !.groupOpen = FALSE,
                           !.prevEntry = vf.entry]
    /\ UNCHANGED <<call, bufVars, wire, dec, encoder, rf>>

\* the closure of the open collection is called on one element
VEntry ==
    /\ VCanCall
    /\ vf.rec \in CollectionKinds
    /\ \E args \in ElementArgs(vf.rec) :
         \E name \in {IF vf.rec = "Hash" THEN "HashEntry"
                      ELSE IF vf.rec = "HashWithExp" THEN "HashWithExpEntry"
                      ELSE IF vf.rec = "List" THEN "ListEntry"
                      ELSE IF vf.rec = "Set" THEN "SetEntry"
                      ELSE "ZsetEntry"} :
         \E c \in {verifier_call(vf.v, name, vf.v.cb.key, args, <<>>)} :
           vf' = AfterCall(c, name, vf.v.cb.fn,
                           vf.total + ElementBytes(vf.rec, args),
                           vf.entry + ElementBytes(vf.rec, args),
                           vf.v.cb.fn = "keyErr")
    /\ UNCHANGED <<call, bufVars, wire, dec, encoder, rf>>

\* StreamEntryHandler(key): a stream begins
VStreamEntryHandler ==
    /\ VCanCall
    /\ \E key \in VKeys :
         \E c \in {verifier_call(vf.v, "StreamEntryHandler", key, <<>>, <<>>)} :
           vf' = [AfterCall(c, "StreamEntryHandler", "", vf.total + Len(key),
                            0, Len(key) > vf.v.maxKeySize)
                    EXCEPT !.rec = "Stream", !.groupOpen = FALSE,
                           !.prevEntry = vf.entry]
    /\ UNCHANGED <<call, bufVars, wire, dec, encoder, rf>>

\* StreamGroupHandler(key), which the reader calls next
VStreamGroupHandler ==
    /\ VCanCall
    /\ vf.rec = "Stream"
    /\ ~vf.groupOpen
    /\ \E c \in {verifier_call(vf.v, "StreamGroupHandler", vf.v.cb.key, <<>>,
                               <<>>)} :
         vf' = [AfterCall(c, "StreamGroupHandler", "", vf.total, 0, FALSE)
                  EXCEPT !.groupOpen = TRUE]
    /\ UNCHANGED <<call, bufVars, wire, dec, encoder, rf>>

\* the closure of the open stream is called on one entry
VStreamEntry ==
    /\ VCanCall
    /\ vf.rec = "Stream"
    /\ vf.groupOpen
    /\ \E entry \in VEntries :
         \E c \in {verifier_call(vf.v, "StreamEntry", vf.v.cb.key, <<>>,
                                 entry)} :
           vf' = AfterCall(c, "StreamEntry", vf.v.cb.fn,
                           vf.total + EntryBytes(entry), vf.entry,
                           vf.v.cb.fn = "keyErr")
    /\ UNCHANGED <<call, bufVars, wire, dec, encoder, rf>>

\* the group closure of the open stream is called on one consumer group
VStreamGroup ==
    /\ VCanCall
    /\ vf.rec = "Stream"
    /\ vf.groupOpen
    /\ \E group \in VGroups :
         \E c \in {verifier_call(vf.v, "StreamGroup", vf.v.groupCb.key, <<>>,
                                 group)} :
           vf' = AfterCall(c, "StreamGroup", vf.v.groupCb.fn,
                           vf.total + GroupBytes(group),
                           vf.entry + GroupBytes(group),
                           \E k \in DOMAIN group.Consumers :
                               Len(group.Consumers[k].PendingEntries)
                                   > vf.v.maxStreamPELSize)
    /\ UNCHANGED <<call, bufVars, wire, dec, encoder, rf>>

VerifierNext ==
    \/ VHandleString
    \/ VHandleModule
    \/ VEntryHandler
    \/ VEntry
    \/ VStreamEntryHandler
    \/ VStreamGroupHandler
    \/ VStreamEntry
    \/ VStreamGroup

SpecVerifier == VerifierInit /\ [][VerifierNext]_vars

\* the call that was made last
LastCall == vf.last

ElementCalls ==
    {"HashEntry", "HashWithExpEntry", "ListEntry", "SetEntry", "ZsetEntry"}

(***************************************************************************)
(* C15: for records whose keys are within max_key_size: while every call   *)
(* succeeded, the data size of the verifier is the number of bytes of the  *)
(* keys and elements given to it, each counted once; a call whose pending  *)
(* lists are within their limit and that leaves the number of bytes above  *)
(* max_data_size does not succeed, and a call fails with the               *)
(* max-data-size error only when the number of bytes is above              *)
(* max_data_size.                                                          *)
(***************************************************************************)
C15_DataSizeAccounting ==
    (vf.op = "handlers" /\ vf.n >= 1 /\ ~vf.overKey) =>
        /\ ~vf.failed => vf.v.dataSize = vf.total
        /\ (LastCall.total > vf.v.maxDataSize /\ ~LastCall.refused)
               => LastCall.err # ""
        /\ LastCall.err
             = errMaxDataSizeExceeded(vf.v.dataSize, vf.v.maxDataSize)
               => LastCall.total > vf.v.maxDataSize
(***************************************************************************)
(* C16: the entry size the verifier compares with max_entry_size is that   *)
(* of the open record alone.  A call on an element of a collection, on a   *)
(* consumer group of a stream, or on a string or module value, that        *)
(* neither the key nor the pending-list limit refuses, fails with the      *)
(* max-entry-size error exactly when the bytes of the elements (groups,    *)
(* value) given for that record so far exceed max_entry_size, a number     *)
(* equal to the limit being accepted; a call on a stream entry never       *)
(* fails with the max-entry-size error.                                    *)
(***************************************************************************)
C16_EntrySizePerRecord ==
    (vf.op = "handlers" /\ vf.n >= 1) =>
        /\ (\/ LastCall.name \in ElementCalls /\ LastCall.fn = "entry"
            \/ LastCall.name = "StreamGroup" /\ ~LastCall.refused
            \/ LastCall.name \in {"String", "Module"} /\ ~LastCall.refused)
               => (LastCall.err
                     = errMaxEntrySizeExceeded(LastCall.entry,
                                               vf.v.maxEntrySize)
                   <=> LastCall.entry > vf.v.maxEntrySize)
        /\ LastCall.name = "StreamEntry"
               => \A c \in 0..LastCall.total :
                      LastCall.err
                        # errMaxEntrySizeExceeded(c, vf.v.maxEntrySize)

\* a record whose elements came to exactly max_entry_size was accepted, and
\* an element of the record after it is accepted too
C16_Witness ==
    /\ vf.op = "handlers"
    /\ vf.prevEntry = vf.v.maxEntrySize
    /\ LastCall.name \in ElementCalls
    /\ LastCall.fn = "entry"
    /\ LastCall.err = ""
    /\ vf.entry > 0
(***************************************************************************)
(* verify.go: VerifyFile, VerifyReader and VerifyValue.  readFile(buf,     *)
(* handler, maxLz77StrLen) is the op-code loop of ReadFile over a buffer   *)
(* that the caller made over the whole file, with the limit on compressed  *)
(* strings set; it is run to its return.  The buffer is the file-backed    *)
(* one or, with forwardOnly, the forward-only one.                         *)
(***************************************************************************)
RECURSIVE ReadFile_run(_)
ReadFile_run(st) ==
    IF st.status # "loop" THEN st
    ELSE (CHOOSE the \in { ReadFile_run(n) : n \in {ReadFile_step(st)} } : TRUE)

\* the header is read from the buffer, and checked as ReadFile checks it
readFile_open(buf, hs, maxLz77StrLen) ==
    LET reader == [buf EXCEPT !.maxLz77StrLen = maxLz77StrLen]
        st == [IdleRead EXCEPT !.file = IF buf.kind = "file" THEN buf.buf.file
                                       ELSE buf.buf.buf,
                               !.hs = hs,
                               !.byBuffer = TRUE]
        fail(e) == [st EXCEPT !.status = "returned", !.err = e]
    IN  (CHOOSE the \in {
            IF header.err # "" THEN fail(header.err)
            ELSE IF SubSeq(header.val, 1, magicLen) # magicStr
            THEN fail(errWrongSignature)
            ELSE
        (CHOOSE the \in {
            IF version.err # "" THEN fail(version.err)
            ELSE IF LessInt64(version.val, U64(1))
                     \/ LessInt64(U64(Version), version.val)
            THEN fail(errVersion)
            ELSE [st EXCEPT !.status = "loop", !.header = header.val,
                            !.endsWithCRC = ~LessInt64(version.val, U64(5)),
                            !.r = header.r]
          : version \in {Atoi64(SubSeq(header.val, magicLen + 1, headerLen))} } : TRUE)
          : header \in {read(reader, headerLen)} } : TRUE)

readFile(buf, hs, maxLz77StrLen) ==
    ReadFile_run(readFile_open(buf, hs, maxLz77StrLen))

\* what VerifyFile and VerifyReader do alike with the buffer they made:
\* the defaults of the options, the verifier, and readFile.  The error and
\* the verifier when it returns
verifyBuffer(buf, opts) ==
    (CHOOSE the \in {
    (CHOOSE the \in {
        [err |-> st.err, v |-> st.hs.v, calls |-> st.hs.calls]
      : st \in {readFile(buf, newVerifierHandler(newVerifier(o)),
                         o.MaxEntrySize)} } : TRUE)
      : o \in {maybeSetDefaults(opts)} } : TRUE)

\* VerifyFile(path, opts) on the file at path
VerifyFile(file, opts) ==
    verifyBuffer(newFileBackedReader(file, 0, Len(file),
                                     MinInt(Len(file), 1048576)), opts)

\* VerifyReader(r, opts) on an io.Reader that yields the bytes of file and
\* ends as atEnd tells
VerifyReader(file, atEnd, opts) ==
    verifyBuffer(newForwardOnlyReader(file, atEnd), opts)

\* VerifyValue(payload, opts)
VerifyValue(payload, opts) ==
    (CHOOSE the \in {
    (CHOOSE the \in {
        [err |-> x.err, v |-> x.hs.v, calls |-> x.hs.calls]
      : x \in {readValue(<<>>, payload,
                         newVerifierHandler(
                             newVerifier([MaxDataSize |-> mathMaxInt,
                                          MaxEntrySize |-> o.MaxEntrySize,
                                          MaxKeySize |-> mathMaxInt,
                                          MaxStreamPELSize |-> o.MaxStreamPELSize,
                                          AllowPartialVerify |-> FALSE,
                                          RequireStrictEOF |-> FALSE])),
                         o.MaxEntrySize)} } : TRUE)
      : o \in {VerifyValueOptions_maybeSetDefaults(opts)} } : TRUE)

(***************************************************************************)
(* Verify specification: a snapshot of up to MaxSnapshot records, or the   *)
(* value of one record, is verified under some limits, and then once more  *)
(* under limits that are nowhere smaller.  A record is described by its    *)
(* type, its key and the number of its elements.                           *)
(***************************************************************************)
MaxSnapshot == 2

MaxPadding == 1

RecordShapes ==
    {<<"str", 1>>, <<"list", 0>>, <<"list", 1>>, <<"set", 0>>, <<"hash", 1>>,
     <<"zset", 1>>, <<"json", 1>>, <<"stream", 1>>}

SnapshotRecords ==
    {[t |-> sh[1], key |-> k, n |-> sh[2]] : sh \in RecordShapes, k \in VKeys}

Snapshots == UNION {[1..n -> SnapshotRecords] : n \in 0..MaxSnapshot}

\* the JSON module ID with version 3, as ReadModule2 reads it
JSONModuleWord == <<69, 226, 82, 56, 223, 145, 44, 3>>

RecordType(rec) ==
    IF rec.t = "str" THEN TypeString
    ELSE IF rec.t = "list" THEN TypeList
    ELSE IF rec.t = "set" THEN TypeSet
    ELSE IF rec.t = "hash" THEN TypeHash
    ELSE IF rec.t = "zset" THEN TypeZset2
    ELSE IF rec.t = "json" THEN TypeModule2
    ELSE TypeStreamListpacks

\* the bytes of the value of a record, after type and key
RecordValue(rec) ==
    IF rec.t = "str" THEN StrB(<<118>>)
    ELSE IF rec.t \in {"list", "set"}
    THEN LenB(U64(rec.n)) \o ConcatMap(StrB, [i \in 1..rec.n |-> <<120>>], 1)
    ELSE IF rec.t = "hash"
    THEN LenB(U64(rec.n))
             \o ConcatMap(StrB, [i \in 1..(2 * rec.n) |-> <<102>>], 1)
    ELSE IF rec.t = "zset"
    THEN LenB(U64(rec.n)) \o StrB(<<120>>) \o Swap64(ScoreBits)
    ELSE IF rec.t = "json"
    THEN LenB(JSONModuleWord) \o LenB(U64(moduleOpCodeString))
             \o StrB(<<123, 125>>) \o LenB(U64(moduleOpCodeEOF))
    ELSE Tail(GetBuffer(WriteStream(
                  WriteType(NewWriter, TypeStreamListpacks),
                  [Entries |-> <<[ID |-> StreamID(1, 1),
                                  Value |-> <<<<102>>, <<118>>>>]>>,
                   Length |-> U64(1), LastID |-> StreamID(1, 1),
                   Groups |-> <<>>], <<>>)))

RecordBytes(rec) == <<RecordType(rec)>> \o StrB(rec.key) \o RecordValue(rec)

\* a version 12 file with a zero CRC footer
SnapshotFile(records) ==
    magicStr \o VersionDigits(Version) \o ConcatMap(RecordBytes, records, 1)
        \o <<typeOpCodeEOF>> \o Zero64

\* the snapshot followed by padding zero bytes
PaddedFile(records, padding) == SnapshotFile(records) \o Zeros(padding)

FileOptions ==
    {[MaxDataSize |-> d, MaxEntrySize |-> e, MaxKeySize |-> k,
      MaxStreamPELSize |-> 1, AllowPartialVerify |-> FALSE,
      RequireStrictEOF |-> FALSE] :
        d \in {0, 3}, e \in {0, 1}, k \in {1, 2}}

\* the options of the runs that tell a strict EOF from a lax one
EOFOptions ==
    {[MaxDataSize |-> 0, MaxEntrySize |-> 0, MaxKeySize |-> 0,
      MaxStreamPELSize |-> 0, AllowPartialVerify |-> FALSE,
      RequireStrictEOF |-> s] : s \in BOOLEAN}

ValueOptions ==
    {[MaxEntrySize |-> e, MaxStreamPELSize |-> p] : e \in {0, 1, 9}, p \in {0, 1}}

\* limits <= limits' componentwise
LimitsLeq(a, b) ==
    \A f \in DOMAIN a \ {"AllowPartialVerify", "RequireStrictEOF"} :
        a[f] <= b[f]

NoRun == [done |-> FALSE, opts |-> <<>>, err |-> ""]

VerifyInit ==
    /\ BufIdle
    /\ wire = NoPayload
    /\ dec = NoDecode
    /\ encoder = IdleEncoder
    /\ rf = IdleRead
    /\ call = NoCall
    /\ vf = [op |-> "idle"]

\* a call of VerifyFile, VerifyReader or VerifyValue that has not returned:
\* bytes is the file, what the io.Reader yields, or the payload
VerifyCall(op, records, bytes, opts, padding) ==
    [op |-> op, records |-> records, bytes |-> bytes, opts |-> opts,
     padding |-> padding, atEnd |-> "file"]

\* how the io.Reader given to VerifyReader ends
ReaderEnds == {"EOF", "nil", "early"}

\* VerifyFile(path, opts) is called on a snapshot
VVerifyFile ==
    /\ vf.op = "idle"
    /\ call = NoCall
    /\ \E records \in Snapshots, opts \in FileOptions :
         call' = VerifyCall("VerifyFile", records, SnapshotFile(records),
                            opts, 0)
    /\ UNCHANGED <<vf, bufVars, wire, dec, encoder, rf>>

\* VerifyValue(payload, opts) is called on the value of one record
VVerifyValue ==
    /\ vf.op = "idle"
    /\ call = NoCall
    /\ \E rec \in SnapshotRecords, opts \in ValueOptions :
         call' = VerifyCall("VerifyValue", <<rec>>,
                            <<RecordType(rec)>> \o RecordValue(rec), opts, 0)
    /\ UNCHANGED <<vf, bufVars, wire, dec, encoder, rf>>

\* the same snapshot or value is verified once more, under limits that are
\* not smaller
VVerifyAgain ==
    /\ vf.op \in {"VerifyFile", "VerifyValue"}
    /\ ~vf.again.done
    /\ call = NoCall
    /\ \E opts \in (IF vf.op = "VerifyFile" THEN FileOptions
                    ELSE ValueOptions) :
         /\ LimitsLeq(vf.opts, opts)
         /\ call' = VerifyCall(vf.op, vf.records,
                               IF vf.op = "VerifyFile"
                               THEN SnapshotFile(vf.records)
                               ELSE <<RecordType(vf.records[1])>>
                                        \o RecordValue(vf.records[1]),
                               opts, 0)
    /\ UNCHANGED <<vf, bufVars, wire, dec, encoder, rf>>

\* VerifyFile(path, opts) or VerifyReader(r, opts) is called on a snapshot
\* that is followed by padding bytes, with and without RequireStrictEOF
VVerifyPadded ==
    /\ vf.op = "idle"
    /\ call = NoCall
    /\ \E records \in Snapshots, opts \in EOFOptions, padding \in 0..MaxPadding,
          atEnd \in {"file"} \cup ReaderEnds :
         call' = [VerifyCall(IF atEnd = "file" THEN "VerifyPadded"
                             ELSE "VerifyReader",
                             records, PaddedFile(records, padding), opts,
                             padding) EXCEPT !.atEnd = atEnd]
    /\ UNCHANGED <<vf, bufVars, wire, dec, encoder, rf>>

\* the call runs to its return: the first run of a snapshot or value is
\* recorded with its verifier, a second run with its error
VVerifyReturn ==
    /\ call # NoCall
    /\ \E x \in {IF call.op = "VerifyValue"
                 THEN VerifyValue(call.bytes, call.opts)
                 ELSE verifyBuffer(
                          IF call.op = "VerifyReader"
                          THEN newForwardOnlyReader(call.bytes, call.atEnd)
                          ELSE newFileBackedReader(
                                   call.bytes, 0, Len(call.bytes),
                                   MinInt(Len(call.bytes), 1048576)),
                          call.opts)} :
         vf' = IF vf.op = "idle"
               THEN [op |-> call.op, records |-> call.records,
                     opts |-> call.opts, padding |-> call.padding,
                     err |-> x.err, v |-> x.v, calls |-> x.calls,
                     again |-> NoRun]
               ELSE [vf EXCEPT !.again = [done |-> TRUE, opts |-> call.opts,
                                          err |-> x.err]]
    /\ call' = NoCall
    /\ UNCHANGED <<bufVars, wire, dec, encoder, rf>>

VerifyNext ==
    \/ VVerifyFile
    \/ VVerifyValue
    \/ VVerifyAgain
    \/ VVerifyPadded
    \/ VVerifyReturn

SpecVerify == VerifyInit /\ [][VerifyNext]_vars

\* the limits of a run are all positive: none is replaced by its default
AllPositive(opts) ==
    \A f \in DOMAIN opts \ {"AllowPartialVerify", "RequireStrictEOF"} :
        opts[f] > 0

(***************************************************************************)
(* C13: when a snapshot or a value was verified with success under limits  *)
(* that are all positive, it is verified with success under all positive   *)
(* limits that are componentwise not smaller.                              *)
(***************************************************************************)
C13_VerifierMonotone ==
    (/\ vf.op \in {"VerifyFile", "VerifyValue"}
     /\ vf.again.done
     /\ AllPositive(vf.opts)
     /\ AllPositive(vf.again.opts)
     /\ vf.err = "")
        => vf.again.err = ""

\* a record of the verified snapshot whose key is longer than max_key_size
LongKeyRecord ==
    \E i \in DOMAIN vf.records : Len(vf.records[i].key) > vf.v.maxKeySize

(***************************************************************************)
(* C14: the verification of a snapshot that has a record, of any type and  *)
(* with any number of elements, whose key is longer than max_key_size      *)
(* fails; when that record is the first of the snapshot, it fails with     *)
(* the max-key-size error for that key.                                    *)
(***************************************************************************)
C14_LongKeyFails ==
    (vf.op = "VerifyFile" /\ LongKeyRecord)
        => /\ vf.err # ""
           /\ Len(vf.records[1].key) > vf.v.maxKeySize
                  => vf.err = errMaxKeySizeExceeded(Len(vf.records[1].key),
                                                    vf.v.maxKeySize)
(***************************************************************************)
(* Module specification: ReadModule2 on a payload that is a module ID      *)
(* followed by up to MaxOps module items, with and without skipping of     *)
(* unsupported modules.  An item is an op-code with its operand; "bad" is  *)
(* an op-code that no module item has, "cut" a string item that lacks its  *)
(* last byte.  The items whose names start with n are the node types of a  *)
(* version 0 JSON tree; "dict", "pair" and "triple" are whole trees of     *)
(* two keys, of one and of three, "nested" is a map within a map.  The     *)
(* orders in which the Go runtime walks the maps of a tree are drawn from  *)
(* MapOrders, which numbers every order of three keys and every pair of    *)
(* orders of two maps of two keys.                                         *)
(***************************************************************************)
MaxOps == 3

MapOrders == 0..5

ModuleItems == {"eof", "sint", "uint", "float", "double", "string", "bad"}

ModuleUInt(n) == LenB(U64(moduleOpCodeUInt)) \o LenB(U64(n))

ModuleString(s) == LenB(U64(moduleOpCodeString)) \o StrB(s)

\* the key "a" with the integer 1
PairBytes ==
    ModuleUInt(jsonModuleV0NodeKeyVal) \o ModuleString(<<97>>)
        \o ModuleUInt(jsonModuleV0NodeInteger) \o ModuleUInt(1)

\* the key "b" with the array of null and true
ArrayPairBytes ==
    ModuleUInt(jsonModuleV0NodeKeyVal) \o ModuleString(<<98>>)
        \o ModuleUInt(jsonModuleV0NodeArray) \o ModuleUInt(2)
        \o ModuleUInt(jsonModuleV0NodeNull)
        \o ModuleUInt(jsonModuleV0NodeBoolean) \o ModuleString(<<49>>)

\* the key with the integer n
IntPairBytes(key, n) ==
    ModuleUInt(jsonModuleV0NodeKeyVal) \o ModuleString(<<key>>)
        \o ModuleUInt(jsonModuleV0NodeInteger) \o ModuleUInt(n)

\* the key "b" with the map of "y" to 1 and "x" to 2
DictPairBytes ==
    ModuleUInt(jsonModuleV0NodeKeyVal) \o ModuleString(<<98>>)
        \o ModuleUInt(jsonModuleV0NodeDict) \o ModuleUInt(2)
        \o IntPairBytes(121, 1) \o IntPairBytes(120, 2)

ModuleItemBytes(item) ==
    IF item = "nnull" THEN ModuleUInt(jsonModuleV0NodeNull)
    ELSE IF item = "nstring" THEN ModuleUInt(jsonModuleV0NodeString)
    ELSE IF item = "nnumber" THEN ModuleUInt(jsonModuleV0NodeNumber)
    ELSE IF item = "ninteger" THEN ModuleUInt(jsonModuleV0NodeInteger)
    ELSE IF item = "nboolean" THEN ModuleUInt(jsonModuleV0NodeBoolean)
    ELSE IF item = "pair"
    THEN ModuleUInt(jsonModuleV0NodeDict) \o ModuleUInt(1) \o PairBytes
    ELSE IF item = "dict"
    THEN ModuleUInt(jsonModuleV0NodeDict) \o ModuleUInt(2) \o PairBytes
             \o ArrayPairBytes
    ELSE IF item = "nested"
    THEN ModuleUInt(jsonModuleV0NodeDict) \o ModuleUInt(2)
             \o IntPairBytes(97, 0) \o DictPairBytes
    ELSE IF item = "triple"
    THEN ModuleUInt(jsonModuleV0NodeDict) \o ModuleUInt(3)
             \o IntPairBytes(97, 1) \o IntPairBytes(98, 2)
             \o IntPairBytes(99, 3)
    ELSE IF item = "eof" THEN LenB(U64(moduleOpCodeEOF))
    ELSE IF item = "sint" THEN LenB(U64(moduleOpCodeSInt)) \o LenB(U64(7))
    ELSE IF item = "uint" THEN LenB(U64(moduleOpCodeUInt)) \o LenB(U64(300))
    ELSE IF item = "float"
    THEN LenB(U64(moduleOpCodeFloat)) \o <<0, 0, 128, 63>>
    ELSE IF item = "double"
    THEN LenB(U64(moduleOpCodeDouble)) \o Swap64(ScoreBits)
    ELSE IF item = "string"
    THEN LenB(U64(moduleOpCodeString)) \o StrB(<<123, 125>>)
    ELSE IF item = "cut" THEN LenB(U64(moduleOpCodeString)) \o <<2, 123>>
    ELSE LenB(U64(6))

\* module IDs with the names their bits spell; the last two are the JSON
\* module in its versions 3 and 0
ModuleWords ==
    {[id |-> Zero64, name |-> "AAAAAAAAA", json |-> FALSE],
     [id |-> <<69, 226, 82, 56, 223, 145, 44, 0>>, name |-> "ReJSON-RL",
      json |-> TRUE],
     [id |-> <<0, 0, 0, 0, 0, 0, 4, 3>>, name |-> "AAAAAAAAB", json |-> FALSE],
     [id |-> <<255, 255, 255, 255, 255, 255, 252, 0>>, name |-> "_________",
      json |-> FALSE],
     [id |-> <<69, 226, 82, 56, 223, 145, 44, 3>>, name |-> "ReJSON-RL",
      json |-> TRUE]}

\* the trees of the version 0 JSON module, with and without the EOF item
TreeScripts ==
    {<<"nnull">>, <<"nstring", "string">>, <<"nnumber", "double">>,
     <<"ninteger", "uint">>, <<"nboolean", "string">>, <<"pair">>}

\* the JSON text of a tree
TreeText(items) ==
    IF items[1] = "nnull" THEN <<110, 117, 108, 108>>
    ELSE IF items[1] = "nstring" THEN <<123, 125>>
    ELSE IF items[1] = "nnumber" THEN <<49, 46, 53>>
    ELSE IF items[1] = "ninteger" THEN <<51, 48, 48>>
    ELSE IF items[1] = "nboolean" THEN <<102, 97, 108, 115, 101>>
    ELSE <<123, 34, 97, 34, 58, 49, 125>>

ValueScripts ==
    UNION {[1..n -> ModuleItems] : n \in 0..MaxOps}
        \cup {<<"string", "cut">>, <<"cut">>}
        \cup TreeScripts \cup {Append(t, "eof") : t \in TreeScripts}

ModuleScripts ==
    ValueScripts \cup {<<"dict">>, <<"dict", "eof">>, <<"nested">>,
                       <<"nested", "eof">>, <<"triple">>, <<"nnull", "bad">>,
                       <<"nnumber", "uint">>, <<"nstring", "cut">>}

ModulePayload(word, items) ==
    LenB(word.id) \o ConcatMap(ModuleItemBytes, items, 1)

ModuleInit ==
    /\ BufIdle
    /\ wire = NoPayload
    /\ dec = NoDecode
    /\ encoder = IdleEncoder
    /\ rf = IdleRead
    /\ vf = NoVerify
    /\ \E word \in ModuleWords, items \in ModuleScripts,
          skipUnsupported \in BOOLEAN, mapOrder \in MapOrders :
         call = [op |-> "ReadModule2", word |-> word, items |-> items,
                 skipUnsupported |-> skipUnsupported, mapOrder |-> mapOrder,
                 status |-> "ready",
                 err |-> "", val |-> <<>>, marker |-> EmptyModuleMarker,
                 pos |-> 0]

\* r.ReadModule2(skipUnsupported) on a reader of the payload
MReadModule2 ==
    /\ call.op = "ReadModule2"
    /\ call.status = "ready"
    /\ \E m \in {ReadModule2([newValueReader(
                                  ModulePayload(call.word, call.items))
                                  EXCEPT !.mapOrder = call.mapOrder],
                             call.skipUnsupported)} :
         call' = [call EXCEPT !.status = "returned", !.err = m.err,
                              !.val = m.val, !.marker = m.marker,
                              !.pos = Consumed(m.r)]
    /\ UNCHANGED <<bufVars, wire, dec, encoder, rf, vf>>

ModuleNext == MReadModule2

SpecModule == ModuleInit /\ [][ModuleNext]_vars

\* the items of the call up to and including its first "eof", or all of
\* them when there is none
UpToEOF ==
    IF \E i \in DOMAIN call.items : call.items[i] = "eof"
    THEN SubSeq(call.items, 1,
                CHOOSE i \in DOMAIN call.items :
                    /\ call.items[i] = "eof"
                    /\ \A j \in 1..(i - 1) : call.items[j] # "eof")
    ELSE call.items

HasEOF == \E i \in DOMAIN call.items : call.items[i] = "eof"

Skippable == {"eof", "sint", "uint", "float", "double", "string"}

(***************************************************************************)
(* C17: for a module ID that is not the JSON module, ReadModule2 without   *)
(* skipping returns 'unsupported module <name>' and has read the ID only;  *)
(* with skipping it reads the items SInt, UInt, Float, Double and String   *)
(* up to and including the first EOF item and succeeds, and an item with   *)
(* another op-code before that EOF is an error.  For the JSON module a     *)
(* string that is not followed by an EOF item is an error.                 *)
(***************************************************************************)
C17_ReadModule2Unsupported ==
    (call.op = "ReadModule2" /\ call.status = "returned") =>
        /\ (~call.word.json /\ ~call.skipUnsupported)
               => /\ call.err = "unsupported module " \o call.word.name
                  /\ call.pos = Len(LenB(call.word.id))
        /\ (/\ ~call.word.json
            /\ call.skipUnsupported
            /\ HasEOF
            /\ \A i \in DOMAIN UpToEOF : UpToEOF[i] \in Skippable)
               => /\ call.err = ""
                  /\ call.pos = Len(ModulePayload(call.word, UpToEOF))
        /\ (/\ ~call.word.json
            /\ call.skipUnsupported
            /\ \E i \in DOMAIN UpToEOF : UpToEOF[i] = "bad")
               => call.err = "unexpected module opcode"
        /\ (/\ call.word.json
            /\ Len(call.items) >= 1
            /\ call.items[1] = "string"
            /\ (Len(call.items) < 2 \/ call.items[2] # "eof"))
               => call.err # ""

\* the items of an unsupported module were skipped up to the EOF item, and
\* the item after it was left unread
C17_Witness ==
    /\ call.op = "ReadModule2"
    /\ call.status = "returned"
    /\ ~call.word.json
    /\ call.skipUnsupported
    /\ call.items = <<"string", "eof", "uint">>
    /\ call.err = ""
    /\ call.pos = Len(ModulePayload(call.word, <<"string", "eof">>))
\* the shortest of the 1-, 2- and 5-byte length forms for a number below
\* 2^31
ShortestPrefix(n) ==
    IF n <= 63 THEN <<n>>
    ELSE IF n <= 16383 THEN <<64 + (n \div 256), n % 256>>
    ELSE <<128, n \div 16777216, (n \div 65536) % 256, (n \div 256) % 256,
           n % 256>>

\* the file of the encoder with the bytes its writer still holds
EncodedFile == FileWriter_Flush(encoder.s.writer).file

\* the bytes of the file at offset pos are those of prefix
EmittedAt(pos, prefix) ==
    /\ pos + Len(prefix) <= Len(EncodedFile)
    /\ SubSeq(EncodedFile, pos + 1, pos + Len(prefix)) = prefix

(***************************************************************************)
(* C18: the element count that the encoder has emitted for a collection it *)
(* closed, and the size of the database it has emitted after the           *)
(* resize-db op-code of a file it closed, are in the shortest length form  *)
(* that represents them.                                                   *)
(***************************************************************************)
C18_ShortestLengthForm ==
    /\ (encoder.phase = "begun" /\ encoder.ce # <<>>)
           => EmittedAt(encoder.ce.lengthPos,
                        ShortestPrefix(encoder.ce.length))
    /\ encoder.phase = "file"
           => EmittedAt(encoder.s.countPos + 1,
                        ShortestPrefix(encoder.s.count))
\* the records of the log that were written with an expiry
RECURSIVE WithExpiry(_, _)
WithExpiry(log, i) ==
    IF i > Len(log) THEN 0
    ELSE (IF log[i].expiry # <<>> THEN 1 ELSE 0) + WithExpiry(log, i + 1)

\* the resize-db op-code and two sizes in the 9-byte length form
ResizeDBBytes(dbSize, expiryDBSize) ==
    <<typeOpCodeResizeDB, len64Bit>> \o U64(dbSize) \o <<len64Bit>>
        \o U64(expiryDBSize)

\* the step encoder.Close() of a file encoder with no open collection
ClosesFile == encoder.phase = "begun" /\ encoder'.phase = "file"

\* the file as it is before Close, with the EOF marker and the zero CRC
FileAtClose ==
    FileWriter_Flush(encoder.s.writer).file \o <<typeOpCodeEOF>> \o Zero64

\* the offsets (from 1) of the resize-db bytes that Begin wrote
ResizeDBOffsets ==
    (encoder.s.countPos + 1)..(encoder.s.countPos + Len(ResizeDBBytes(0, 0)))

(***************************************************************************)
(* C19: Close leaves a file that is the file before it, the EOF marker and *)
(* the zero CRC, except that the resize-db bytes that Begin wrote hold the *)
(* number of records written and the number of records written with an    *)
(* expiry; nothing is left unwritten, and the write position is the end of *)
(* the file.                                                               *)
(***************************************************************************)
C19_ClosePatchesResizeDB ==
    [][ClosesFile =>
          /\ encoder'.s.writer.pend = <<>>
          /\ Len(encoder'.s.writer.file) = Len(FileAtClose)
          /\ \A i \in ResizeDBOffsets :
                 /\ FileAtClose[i]
                      = ResizeDBBytes(0, 0)[i - encoder.s.countPos]
                 /\ encoder'.s.writer.file[i]
                      = ResizeDBBytes(Len(encoder.log),
                                      WithExpiry(encoder.log, 1))
                            [i - encoder.s.countPos]
          /\ \A i \in (1..Len(FileAtClose)) \ ResizeDBOffsets :
                 encoder'.s.writer.file[i] = FileAtClose[i]
          /\ encoder'.s.writer.off = Len(encoder'.s.writer.file)]_vars
RECURSIVE ExpiriesTold(_, _)
\* the expiry callbacks among calls[i..], in order
ExpiriesTold(calls, i) ==
    IF i > Len(calls) THEN <<>>
    ELSE IF calls[i].h = "ExpireTime"
    THEN <<[key |-> calls[i].key, args |-> calls[i].args]>>
             \o ExpiriesTold(calls, i + 1)
    ELSE ExpiriesTold(calls, i + 1)

RECURSIVE ExpiriesWritten(_, _)
\* the expiry instants of the records log[i..], as the durations since the
\* Unix epoch that ReadFile makes of absolute milliseconds
ExpiriesWritten(log, i) ==
    IF i > Len(log) THEN <<>>
    ELSE IF log[i].expiry # <<>>
    THEN <<[key |-> log[i].key, args |-> <<DurationOfMillis(log[i].expiry)>>]>>
             \o ExpiriesWritten(log, i + 1)
    ELSE ExpiriesWritten(log, i + 1)

(***************************************************************************)
(* C20: when the file of a closed encoder has been read, the expiry        *)
(* callbacks made are those of the records written with an expiry, each    *)
(* with the instant the record was written with, whatever the clock read   *)
(* when it was written.                                                    *)
(***************************************************************************)
C20_ExpiryIsAbsolute ==
    (encoder.phase = "file" /\ rf.status = "returned" /\ rf.err = "") =>
        ExpiriesTold(rf.hs.calls, 1) = ExpiriesWritten(encoder.log, 1)
(***************************************************************************)
(* Session specification: a FileEncoder is driven through any sequence of  *)
(* WriteStringEntry, WriteJSON, the six Begin methods, the field writers   *)
(* of the open collection and its Close; a call is tried whether or not a  *)
(* collection is open.  encoder.open is the kind of the collection that    *)
(* a Begin method returned and that was not closed since (<<t>>, or <<>>   *)
(* for none), encoder.last the last call of the file encoder, with the flag    *)
(* s.begin before the call and the error returned.  The fields of a hash   *)
(* with metadata are logged as <<field, value, expiry>>.  After Close the  *)
(* file is read by ReadFile.                                               *)
(***************************************************************************)
\* the expiry instants of the fields: none, and 7 ms after the Unix epoch
FieldExpiries == {<<>>, U64(7)}

NoOp == [op |-> "none", begin |-> FALSE, err |-> ""]

SessionInit ==
    /\ BufIdle
    /\ wire = NoPayload
    /\ dec = NoDecode
    /\ encoder = [phase |-> "idle", s |-> NewEncoder7, ce |-> <<>>,
                  se |-> <<>>, next |-> 0, log |-> <<>>, open |-> <<>>,
                  last |-> NoOp]
    /\ rf = IdleRead
    /\ call = NoCall
    /\ vf = NoVerify

\* the encoder after a call of a record writer or a Begin method: x is
\* what the call returned, t the type of the record
AfterWrite(op, t, key, value, x, open) ==
    [encoder EXCEPT
       !.s = x.s,
       !.last = [op |-> op, begin |-> encoder.s.begin, err |-> x.err],
       !.log = IF x.err = ""
               THEN Append(@, [t |-> t, key |-> key, value |-> value,
                               expiry |-> <<>>])
               ELSE @,
       !.open = IF x.err = "" THEN open ELSE @,
       !.next = IF x.err = "" THEN 0 ELSE @]

SnCanWrite ==
    /\ encoder.phase = "begun"
    /\ Len(encoder.log) < MaxRecords

\* NewFileEncoder(path, redisVersion); encoder.Begin() when there is an
\* encoder
SnBegin ==
    /\ encoder.phase = "idle"
    /\ \E redisVersion \in RedisVersions :
         \E n \in {NewFileEncoder(redisVersion)} :
             encoder' = IF n.err # ""
                        THEN [encoder EXCEPT !.phase = "refused"]
                        ELSE [encoder EXCEPT
                                !.phase = "begun",
                                !.s = FileEncoder_Begin(n.s, <<49>>)]
    /\ UNCHANGED <<call, vf, bufVars, wire, dec, rf>>

\* encoder.WriteStringEntry(key, value, time.Time{})
SnWriteString ==
    /\ SnCanWrite
    /\ \E x \in {FileEncoder_WriteStringEntry(encoder.s, KeyA, <<118>>,
                                              <<>>)} :
           encoder' = AfterWrite("WriteStringEntry", TypeString, KeyA,
                                 <<118>>, x, <<>>)
    /\ UNCHANGED <<call, vf, bufVars, wire, dec, rf>>

\* encoder.WriteJSON(key, json, time.Time{})
SnWriteJSON ==
    /\ SnCanWrite
    /\ \E x \in {FileEncoder_WriteJSON(encoder.s, KeyA, <<49>>, <<>>)} :
           encoder' = AfterWrite("WriteJSON", TypeModule2, KeyA, <<49>>, x,
                                 <<>>)
    /\ UNCHANGED <<call, vf, bufVars, wire, dec, rf>>

\* encoder.BeginList(key, time.Time{}), BeginSet, BeginSortedSet, BeginHash
SnBeginCollection ==
    /\ SnCanWrite
    /\ \E t \in CollectionTypes :
         \E x \in {FileEncoder_BeginCollection(encoder.s, t, KeyB, <<>>)} :
             encoder' = [AfterWrite("Begin", t, KeyB, <<>>, x, <<t>>)
                            EXCEPT !.ce = IF x.err = "" THEN x.ce ELSE @]
    /\ UNCHANGED <<call, vf, bufVars, wire, dec, rf>>

\* encoder.BeginHashWithMetadata(key, time.Time{})
SnBeginHashWithMetadata ==
    /\ SnCanWrite
    /\ \E x \in {FileEncoder_BeginHashWithMetadata(encoder.s, KeyB, <<>>)} :
           encoder' = [AfterWrite("Begin", TypeHashMetadata, KeyB, <<>>, x,
                                  <<TypeHashMetadata>>)
                          EXCEPT !.ce = IF x.err = "" THEN x.ce ELSE @]
    /\ UNCHANGED <<call, vf, bufVars, wire, dec, rf>>

\* encoder.BeginStream(key, time.Time{})
SnBeginStream ==
    /\ SnCanWrite
    /\ \E x \in {FileEncoder_BeginStream(encoder.s, KeyB, <<>>)} :
           encoder' = [AfterWrite("Begin", TypeStreamListpacks, KeyB, <<>>,
                                  x, <<TypeStreamListpacks>>)
                          EXCEPT !.se = IF x.err = "" THEN x.se ELSE @]
    /\ UNCHANGED <<call, vf, bufVars, wire, dec, rf>>

\* WriteFieldStr, WriteFieldStrFloat64 or WriteFieldStrStr on the open
\* list, set, sorted set or hash
SnWriteField ==
    /\ encoder.phase = "begun"
    /\ encoder.open \in {<<t>> : t \in CollectionTypes}
    /\ Len(encoder.log[Len(encoder.log)].value) < MaxFields
    /\ \E n \in {Len(encoder.log)} :
       \E e \in {ElementAt(Len(encoder.log[n].value) + 1)} :
       \E x \in {IF encoder.ce.kind = TypeZset2
                 THEN SortedSetEncoder_WriteFieldStrFloat64(
                          encoder.ce, encoder.s, e, ScoreBits)
                 ELSE IF encoder.ce.kind = TypeHash
                 THEN HashEncoder_WriteFieldStrStr(encoder.ce, encoder.s, e,
                                                   <<118>>)
                 ELSE CollectionEncoder_WriteFieldStr(encoder.ce, encoder.s,
                                                      e)} :
           encoder' = [encoder EXCEPT
                          !.s = x.s,
                          !.ce = x.ce,
                          !.log[n].value =
                              Append(@, IF encoder.ce.kind = TypeZset2
                                        THEN <<e, ScoreBits>>
                                        ELSE IF encoder.ce.kind = TypeHash
                                        THEN <<e, <<118>>>>
                                        ELSE <<e>>)]
    /\ UNCHANGED <<call, vf, bufVars, wire, dec, rf>>

\* WriteFieldStrStrWithExpiry(field, value, expiry) on the open hash with
\* metadata
SnWriteFieldWithExpiry ==
    /\ encoder.phase = "begun"
    /\ encoder.open = <<TypeHashMetadata>>
    /\ Len(encoder.log[Len(encoder.log)].value) < MaxFields
    /\ \E n \in {Len(encoder.log)}, expiry \in FieldExpiries :
       \E e \in {ElementAt(Len(encoder.log[n].value) + 1)} :
       \E x \in {HashMetadataEncoder_WriteFieldStrStrWithExpiry(
                     encoder.ce, encoder.s, e, <<118>>, expiry)} :
           encoder' = [encoder EXCEPT
                          !.s = x.s,
                          !.ce = x.ce,
                          !.log[n].value = Append(@, <<e, <<118>>, expiry>>)]
    /\ UNCHANGED <<call, vf, bufVars, wire, dec, rf>>

\* WriteMetadata(0, StreamID{}) on the open stream, which has no entry
SnWriteMetadata ==
    /\ encoder.phase = "begun"
    /\ encoder.open = <<TypeStreamListpacks>>
    /\ encoder.next = 0
    /\ encoder' = [encoder EXCEPT
                     !.next = 1,
                     !.s = StreamEncoder_WriteMetadata(encoder.s, Zero64,
                                                       StreamID(0, 0))]
    /\ UNCHANGED <<call, vf, bufVars, wire, dec, rf>>

\* WriteGroups(nil) on the open stream
SnWriteGroups ==
    /\ encoder.phase = "begun"
    /\ encoder.open = <<TypeStreamListpacks>>
    /\ encoder.next = 1
    /\ encoder' = [encoder EXCEPT
                     !.next = 2,
                     !.s = StreamEncoder_WriteGroups(encoder.s, <<>>, <<>>)]
    /\ UNCHANGED <<call, vf, bufVars, wire, dec, rf>>

\* Close() of the open collection
SnCloseCollection ==
    /\ encoder.phase = "begun"
    /\ encoder.open # <<>>
    /\ encoder.open = <<TypeStreamListpacks>> => encoder.next = 2
    /\ encoder' = [encoder EXCEPT
                     !.open = <<>>,
                     !.s = IF encoder.open = <<TypeStreamListpacks>>
                           THEN StreamEncoder_Close(encoder.se, encoder.s)
                           ELSE baseCollectionEncoder_Close(encoder.ce,
                                                            encoder.s)]
    /\ UNCHANGED <<call, vf, bufVars, wire, dec, rf>>

\* encoder.Close(), once every collection has been closed
SnClose ==
    /\ encoder.phase = "begun"
    /\ encoder.open = <<>>
    /\ encoder' = [encoder EXCEPT !.phase = "file",
                                  !.s = FileEncoder_Close(encoder.s)]
    /\ UNCHANGED <<call, vf, bufVars, wire, dec, rf>>

SessionNext ==
    \/ SnBegin
    \/ SnWriteString
    \/ SnWriteJSON
    \/ SnBeginCollection
    \/ SnBeginHashWithMetadata
    \/ SnBeginStream
    \/ SnWriteField
    \/ SnWriteFieldWithExpiry
    \/ SnWriteMetadata
    \/ SnWriteGroups
    \/ SnCloseCollection
    \/ SnClose
    \/ EOpen
    \/ ROpCode

SpecSession == SessionInit /\ [][SessionNext]_vars

RECURSIVE FieldsTold(_, _)
\* the arguments of the callbacks of the fields of hashes with metadata
\* among calls[i..], in order
FieldsTold(calls, i) ==
    IF i > Len(calls) THEN <<>>
    ELSE IF calls[i].h = "HashWithExpEntry"
    THEN <<calls[i].args>> \o FieldsTold(calls, i + 1)
    ELSE FieldsTold(calls, i + 1)

RECURSIVE FieldsWritten(_, _)
\* the fields written to the hashes with metadata log[i..], in order
FieldsWritten(log, i) ==
    IF i > Len(log) THEN <<>>
    ELSE IF log[i].t = TypeHashMetadata
    THEN log[i].value \o FieldsWritten(log, i + 1)
    ELSE FieldsWritten(log, i + 1)

\* a hash with metadata was written
WroteHashMetadata ==
    \E i \in DOMAIN encoder.log : encoder.log[i].t = TypeHashMetadata

(***************************************************************************)
(* C21: when the file of a closed encoder that wrote a hash with metadata  *)
(* has been read, the read succeeded and the fields of the hashes with     *)
(* metadata were delivered with the expiry they were written with: the     *)
(* instant E in milliseconds for a field written with expiry E, and no     *)
(* expiry for a field written without one.                                 *)
(***************************************************************************)
C21_FieldExpiryRoundTrip ==
    (encoder.phase = "file" /\ rf.status = "returned" /\ WroteHashMetadata)
        => /\ rf.err = ""
           /\ FieldsTold(rf.hs.calls, 1) = FieldsWritten(encoder.log, 1)
(***************************************************************************)
(* C26: between Begin and Close of the file encoder, the flag s.begin is   *)
(* set exactly while a collection returned by a Begin method has not been  *)
(* closed, and a call of WriteStringEntry, WriteJSON or a Begin method is  *)
(* refused exactly when the flag was set at the call.                      *)
(***************************************************************************)
C26_CollectionInProgress ==
    encoder.phase = "begun" =>
        /\ encoder.s.begin <=> encoder.open # <<>>
        /\ encoder.last.op # "none" =>
               (encoder.last.err # "" <=> encoder.last.begin)
        /\ encoder.last.err # "" =>
               encoder.last.err =
                   errCollectionOpen(IF encoder.last.op = "Begin"
                                     THEN "begin" ELSE "write")
\* the IDs of the live entries of the stream on the wire, in wire order
RECURSIVE LiveIDs(_, _)
LiveIDs(packs, i) ==
    IF i > Len(packs) THEN <<>>
    ELSE IF packs[i].deleted THEN LiveIDs(packs, i + 1)
    ELSE <<packs[i].ID>> \o LiveIDs(packs, i + 1)

WireEntryIDs ==
    IF wire.src = "crafted" THEN LiveIDs(wire.stream.packs, 1)
    ELSE [i \in DOMAIN wire.stream.Entries |-> wire.stream.Entries[i].ID]

\* the names of the groups of the stream on the wire, in wire order
WireGroupNames ==
    IF wire.src = "crafted"
    THEN [g \in DOMAIN wire.stream.groups |-> wire.stream.groups[g].Name]
    ELSE [g \in DOMAIN wire.stream.Groups |-> wire.stream.Groups[g].Name]

\* the positions in dec.calls of the callbacks named h
CallsNamed(h) == {i \in DOMAIN dec.calls : dec.calls[i].h = h}

(***************************************************************************)
(* C22: a stream decode that succeeds has delivered every live entry of    *)
(* the wire once and in wire order, no deleted entry, every entry before   *)
(* the first group, every group of the wire once and in wire order, and    *)
(* the count passed to HandleStreamEnding is the number of entries         *)
(* delivered.                                                              *)
(***************************************************************************)
C22_StreamDeliveryOrder ==
    (dec.done /\ dec.err = "") =>
        /\ LET entries == Delivered(dec.calls, "StreamEntry", 1)
           IN  [i \in DOMAIN entries |-> entries[i].ID] = WireEntryIDs
        /\ \A e \in CallsNamed("StreamEntry"), g \in CallsNamed("StreamGroup") :
               e < g
        /\ LET groups == Delivered(dec.calls, "StreamGroup", 1)
           IN  [g \in DOMAIN groups |-> groups[g].Name] = WireGroupNames
        /\ \A n \in CallsNamed("StreamEnding") :
               dec.calls[n].args
                   = <<U64(Cardinality(CallsNamed("StreamEntry")))>>
        /\ Cardinality(CallsNamed("StreamEnding")) = 1
(***************************************************************************)
(* Container specification: ReadValue on the payload of one list, set,     *)
(* hash or sorted set.  The payload is made from a description: the kind   *)
(* of the value, the count its header declares (big: the sentinel of an    *)
(* unbounded container), the n entries that follow the header, how many    *)
(* bytes are missing at the end of the last entry (cut), and what comes    *)
(* after the entries (tail).                                               *)
(***************************************************************************)
MaxDeclared == 3

MaxEntries == 4

MaxCut == 3

ZiplistKinds == {"ListZiplist", "ZsetZiplist", "HashZiplist", "ListQuicklist"}

ListpackKinds ==
    {"HashListpack", "ZsetListpack", "SetListpack", "ListQuicklist2"}

PlainKinds == {"List", "Zset", "Zset2"}

ContainerKinds ==
    ZiplistKinds \cup ListpackKinds \cup PlainKinds \cup {"HashZipmap"}

\* the kinds whose decoder returns a count for the terminating handler
CountedKinds ==
    {"List", "Zset", "Zset2", "ListZiplist", "ZsetZiplist", "ZsetListpack",
     "ListQuicklist", "ListQuicklist2"}

\* the kinds whose callback takes two entries of the container
PairedKinds == {"ZsetZiplist", "HashZiplist", "HashListpack", "ZsetListpack"}

TypeOfKind(kind) ==
    CASE kind = "List" -> TypeList
      [] kind = "Zset" -> TypeZset
      [] kind = "Zset2" -> TypeZset2
      [] kind = "HashZipmap" -> TypeHashZipmap
      [] kind = "ListZiplist" -> TypeListZiplist
      [] kind = "ZsetZiplist" -> TypeZsetZiplist
      [] kind = "HashZiplist" -> TypeHashZiplist
      [] kind = "ListQuicklist" -> TypeListQuicklist
      [] kind = "HashListpack" -> TypeHashListpack
      [] kind = "ZsetListpack" -> TypeZsetListpack
      [] kind = "ListQuicklist2" -> TypeListQuicklist2
      [] kind = "SetListpack" -> TypeSetListpack

Tails == {"end", "other", "none"}

TailBytes(tail) ==
    IF tail = "end" THEN <<255>> ELSE IF tail = "other" THEN <<7>> ELSE <<>>

\* the value of the i-th entry: the decimal digits of 10 + i
EntryValue(i) == Itoa(10 + i)

\* the i-th entry and the length of its header: the bytes before its data
ZiplistEntry(flavour, i) ==
    IF flavour = "str"
    THEN <<0, ziplistEnc6BitStrLen + 2>> \o EntryValue(i)
    ELSE <<0, ziplistEncInt16, 10 + i, 0>>

ListpackEntry(flavour, i) ==
    IF flavour = "str"
    THEN <<listpackEnc6bitStrLen + 2>> \o EntryValue(i) \o <<3>>
    ELSE <<listpackEncInt24, 10 + i, 0, 0, 4>>

\* a pair of a zipmap; the flavour "int" leaves one free byte after the
\* value
ZipmapEntry(flavour, i) ==
    IF flavour = "str"
    THEN <<2>> \o EntryValue(i) \o <<2, 0>> \o EntryValue(i)
    ELSE <<2>> \o EntryValue(i) \o <<2, 1>> \o EntryValue(i) \o <<0>>

\* an element of a plain list or sorted set; the flavour "int" writes the
\* element as an integer of 8 bits
PlainEntry(kind, flavour, i) ==
    LET elem == IF flavour = "str" THEN <<2>> \o EntryValue(i)
                ELSE <<192 + lenEncodingInt8, 10 + i>>
    IN  IF kind = "List" THEN elem
        ELSE IF kind = "Zset" THEN elem \o <<2>> \o EntryValue(i)
        ELSE elem \o <<i, 0, 0, 0, 0, 0, 240, 63>>

ContainerEntry(kind, flavour, i) ==
    IF kind \in ZiplistKinds THEN ZiplistEntry(flavour, i)
    ELSE IF kind \in ListpackKinds THEN ListpackEntry(flavour, i)
    ELSE IF kind = "HashZipmap" THEN ZipmapEntry(flavour, i)
    ELSE PlainEntry(kind, flavour, i)

HeaderLen(kind) == IF kind \in ZiplistKinds THEN 2 ELSE 1

RECURSIVE EntriesBytes(_, _, _, _, _)
EntriesBytes(kind, flavour, i, n, cut) ==
    IF i > n THEN <<>>
    ELSE IF i = n
    THEN SubSeq(ContainerEntry(kind, flavour, i), 1,
                Len(ContainerEntry(kind, flavour, i)) - cut)
    ELSE ContainerEntry(kind, flavour, i)
             \o EntriesBytes(kind, flavour, i + 1, n, cut)

\* the header of the container in a string, with the declared count
PackedHeader(kind, big, declared) ==
    IF kind \in ZiplistKinds
    THEN <<0, 0, 0, 0, 0, 0, 0, 0>>
             \o (IF big THEN <<255, 255>> ELSE <<declared, 0>>)
    ELSE IF kind \in ListpackKinds
    THEN <<0, 0, 0, 0>> \o (IF big THEN <<255, 255>> ELSE <<declared, 0>>)
    ELSE IF big THEN <<zipmapLenBig>> ELSE <<declared>>

PackedBytes(d) ==
    PackedHeader(d.kind, d.big, d.declared)
        \o EntriesBytes(d.kind, d.flavour, 1, d.n, d.cut)
        \o TailBytes(d.tail)

PlainNode == <<112, 108>>

\* the payload of the value: its type, then the container.  A quicklist
\* has two nodes with the same ziplist; a quicklist of version 2 has a
\* plain node and a packed node with the listpack
ContainerPayload(d) ==
    <<TypeOfKind(d.kind)>> \o
    (IF d.kind \in PlainKinds
     THEN LenB(U64(d.declared))
              \o EntriesBytes(d.kind, d.flavour, 1, d.n, d.cut)
     ELSE IF d.kind = "ListQuicklist"
     THEN LenB(U64(2)) \o StrB(PackedBytes(d)) \o StrB(PackedBytes(d))
     ELSE IF d.kind = "ListQuicklist2"
     THEN LenB(U64(2))
              \o LenB(U64(quicklist2NodePlain)) \o StrB(PlainNode)
              \o LenB(U64(quicklist2NodePacked)) \o StrB(PackedBytes(d))
     ELSE StrB(PackedBytes(d)))

\* the descriptions: a plain value has no sentinel and no tail, and cut
\* either leaves the header of the last entry whole or nothing follows the
\* entries
Descriptions ==
    { d \in [kind : ContainerKinds, big : BOOLEAN, declared : 0..MaxDeclared,
             n : 0..MaxEntries, flavour : {"str", "int"}, cut : 0..MaxCut,
             tail : Tails] :
        /\ d.big => d.declared = 0
        /\ d.kind \in PlainKinds => ~d.big /\ d.tail = "none"
        /\ d.n = 0 => d.cut = 0
        /\ d.cut > 0 =>
               \/ d.cut <= Len(ContainerEntry(d.kind, d.flavour, d.n))
                               - HeaderLen(d.kind)
               \/ d.tail = "none"
                      /\ d.cut < Len(ContainerEntry(d.kind, d.flavour, d.n)) }

ContainerKey == <<107>>

ContainerInit ==
    /\ BufIdle
    /\ wire = NoPayload
    /\ dec = NoDecode
    /\ encoder = IdleEncoder
    /\ rf = IdleRead
    /\ vf = NoVerify
    /\ \E d \in Descriptions :
         call = [op |-> "ReadValue", d |-> d, status |-> "ready", err |-> "",
                 calls |-> <<>>]

\* ReadValue(key, payload, handler) with a handler that refuses nothing
CReadValue ==
    /\ call.op = "ReadValue"
    /\ call.status = "ready"
    /\ \E o \in {ReadValue(ContainerKey, ContainerPayload(call.d),
                           newHandler(FALSE, 0))} :
         call' = [call EXCEPT !.status = "returned", !.err = o.err,
                              !.calls = o.hs.calls]
    /\ UNCHANGED <<bufVars, wire, dec, encoder, rf, vf>>

ContainerNext == CReadValue

SpecContainer == ContainerInit /\ [][ContainerNext]_vars

EntryHandlers == {"ListEntry", "SetEntry", "HashEntry", "ZsetEntry"}

\* the calls of the per-entry callback, and of the terminating handler
EntryCalls == SelectSeq(call.calls, LAMBDA c : c.h \in EntryHandlers)

EndingCalls ==
    SelectSeq(call.calls, LAMBDA c : c.h \in {"ListEnding", "ZsetEnding"})

PerCall(kind) == IF kind \in PairedKinds THEN 2 ELSE 1

\* the callbacks made before the container of the description is read
LeadCalls(kind) == IF kind = "ListQuicklist2" THEN 1 ELSE 0

(***************************************************************************)
(* C23: when the bytes of a ziplist or a listpack stop inside its last     *)
(* entry (more bytes are missing from the entry than follow it), the       *)
(* decode returns an error and the callback is not invoked for that entry. *)
(***************************************************************************)
C23_EntryReadFailurePropagates ==
    (/\ call.op = "ReadValue"
     /\ call.status = "returned"
     /\ call.d.kind \in ZiplistKinds \cup ListpackKinds
     /\ call.d.cut > Len(TailBytes(call.d.tail)))
        => /\ call.err # ""
           /\ Len(EntryCalls) <= LeadCalls(call.d.kind)
                                   + (call.d.n - 1) \div PerCall(call.d.kind)

(***************************************************************************)
(* C24: when a list or a sorted set is decoded with success, the handler   *)
(* of the end is called once, with the number of calls of the per-entry    *)
(* callback.                                                               *)
(***************************************************************************)
C24_CountEqualsCallbacks ==
    (/\ call.op = "ReadValue"
     /\ call.status = "returned"
     /\ call.err = ""
     /\ call.d.kind \in CountedKinds)
        => /\ Len(EndingCalls) = 1
           /\ EndingCalls[1].args = <<U64(Len(EntryCalls))>>

\* the callbacks of a container of n whole entries, one after the other
ExpectedCalls(d) ==
    IF d.kind = "ListQuicklist" THEN 2 * (d.n \div PerCall(d.kind))
    ELSE LeadCalls(d.kind) + d.n \div PerCall(d.kind)

(***************************************************************************)
(* C25: a zipmap, ziplist or listpack is decoded with success only if its  *)
(* entries are whole, the end byte follows them and, when the declared     *)
(* count is below the sentinel, the entries are as many as declared; the   *)
(* entries before the end byte are all delivered.                          *)
(***************************************************************************)
C25_DeclaredCountAndEndByte ==
    (/\ call.op = "ReadValue"
     /\ call.status = "returned"
     /\ call.err = ""
     /\ call.d.kind \notin PlainKinds)
        => /\ call.d.cut = 0
           /\ call.d.tail = "end"
           /\ ~call.d.big => call.d.n = call.d.declared
           /\ Len(EntryCalls) = ExpectedCalls(call.d)
(***************************************************************************)
(* Read specification, the null handler.                                   *)
(***************************************************************************)
\* the records of the script of the file read
RecordItems ==
    SelectSeq(rf.input.script, LAMBDA item : item \in Records)

\* the callbacks that hand a whole record to the caller's handler: the
\* string of a string record, the end of a list record
DeliveredRecords ==
    SelectSeq(Calls, LAMBDA c : c.to = "caller"
                                    /\ c.h \in {"String", "ListEnding"})

(***************************************************************************)
(* C27: while ReadFile runs and after it, the null handler is installed,   *)
(* and a callback went to it, only if the caller's handler allows partial  *)
(* read; when it does not and the file was read with success, every        *)
(* iteration that read a record made callbacks, all to the caller's        *)
(* handler, and the caller received every record of the file.              *)
(***************************************************************************)
C27_NullHandlerOnlyIfPartial ==
    rf.status \in {"loop", "returned"} =>
        /\ rf.hs.nop => rf.hs.partial
        /\ \A c \in DOMAIN Calls : Calls[c].to = "nop" => rf.hs.partial
        /\ (rf.status = "returned" /\ rf.err = "" /\ ~rf.hs.partial) =>
               /\ \A i \in DOMAIN Trace :
                      IsRecordStep(i) =>
                          /\ CallsOf(i) # {}
                          /\ \A c \in CallsOf(i) : Calls[c].to = "caller"
               /\ Len(DeliveredRecords) = Len(RecordItems)

C27_Witness ==
    /\ rf.status = "returned"
    /\ rf.err = ""
    /\ ~rf.hs.partial
    /\ Len(RecordItems) >= 2
    /\ Len(DeliveredRecords) = Len(RecordItems)
    /\ \E k \in DOMAIN Trace : Trace[k].t = typeOpCodeSelectDB
(***************************************************************************)
(* Module value specification: ReadValue on a module record, the type      *)
(* TypeModule2 followed by a module ID and its items, with a handler that  *)
(* does or does not allow partial read.                                    *)
(***************************************************************************)
ModuleValuePayload(word, items) == <<TypeModule2>> \o ModulePayload(word, items)

ModuleValueInit ==
    /\ BufIdle
    /\ wire = NoPayload
    /\ dec = NoDecode
    /\ encoder = IdleEncoder
    /\ rf = IdleRead
    /\ vf = NoVerify
    /\ \E word \in ModuleWords, items \in ValueScripts, partial \in BOOLEAN :
         call = [op |-> "ReadModuleValue", word |-> word, items |-> items,
                 partial |-> partial, status |-> "ready", err |-> "",
                 calls |-> <<>>]

\* ReadValue(key, payload, handler)
MReadValue ==
    /\ call.op = "ReadModuleValue"
    /\ call.status = "ready"
    /\ \E o \in {ReadValue(ContainerKey,
                           ModuleValuePayload(call.word, call.items),
                           newHandler(call.partial, 0))} :
         call' = [call EXCEPT !.status = "returned", !.err = o.err,
                              !.calls = o.hs.calls]
    /\ UNCHANGED <<bufVars, wire, dec, encoder, rf, vf>>

ModuleValueNext == MReadValue

SpecModuleValue == ModuleValueInit /\ [][ModuleValueNext]_vars

\* the calls of HandleModule
ModuleCalls == SelectSeq(call.calls, LAMBDA c : c.h = "Module")

(***************************************************************************)
(* C30: every call of HandleModule carries the JSON marker and the JSON    *)
(* text that was decoded from a record of the JSON module; a record of     *)
(* another module, skipped because partial read is allowed, makes no call  *)
(* of HandleModule.                                                        *)
(***************************************************************************)
C30_HandleModuleOnlyForJSON ==
    (call.op = "ReadModuleValue" /\ call.status = "returned") =>
        /\ \A i \in DOMAIN ModuleCalls :
               /\ call.word.json
               /\ ModuleCalls[i].args
                      = <<IF ModuleVersionOf(call.word.id) = U64(jsonModuleV0)
                          THEN TreeText(call.items)
                          ELSE <<123, 125>>,
                          JSONModuleMarker>>
        /\ ~call.word.json => ModuleCalls = <<>>
(***************************************************************************)
(* View specification: readStreamListpacks0 step by step on a reader whose *)
(* buffer is memory-backed (ReadValue), file-backed (ReadFile) or          *)
(* forward-only (VerifyReader), with the views it opens and the deferred   *)
(* calls that close them.  The bytes are those of a crafted stream, whole  *)
(* or cut after any number of bytes; every kind of buffer yields the same  *)
(* bytes, so the reads go through the readers over the memory-backed       *)
(* buffer and only View and Close depend on the kind.  For the file-backed *)
(* buffer, opens tells how os.Open and file.Seek of the successive calls   *)
(* of View end.                                                            *)
(***************************************************************************)
BufferKinds == {"memory", "file", "forwardOnly"}

\* buffer.go: SupportsView of the three buffers
SupportsView(kind) == kind # "forwardOnly"

\* how a call of fileBackedBuffer.View ends: with a view, with an error of
\* os.Open, with an error of file.Seek, with a seek to another position
OpenOutcomes == {"ok", "open", "seek", "short"}

errOpen == "open: no such file or directory"

errSeek == "seek: invalid argument"

errSeekPosition(shouldSeek, seek) ==
    "expected to seek " \o ToString(shouldSeek) \o ", but it was "
        \o ToString(seek)

\* memoryBackedBuffer.View, fileBackedBuffer.View and
\* forwardOnlyBuffer.View: view is the reader over the view, nil tells a
\* nil view, opened and closed count the files View opened and closed
buffer_View(kind, r, pos, outcome) ==
    LET none(e, o, c) ==
            [view |-> r, nil |-> TRUE, err |-> e, opened |-> o, closed |-> c]
    IN  IF kind = "forwardOnly" THEN none("", 0, 0)
        ELSE IF kind = "memory"
        THEN [view |-> View(r, pos), nil |-> FALSE, err |-> "", opened |-> 0,
              closed |-> 0]
        ELSE IF outcome = "open" THEN none(errOpen, 0, 0)
        ELSE IF outcome = "seek" THEN none(errSeek, 1, 1)
        ELSE IF outcome = "short" THEN none(errSeekPosition(pos, 0), 1, 1)
        ELSE [view |-> View(r, pos), nil |-> FALSE, err |-> "", opened |-> 1,
              closed |-> 0]

\* the streams of the specification: one entry, one group whose consumer
\* has the entry 1-1 pending
ViewStreams ==
    {cs \in CraftedStreams :
        ~cs.packs[1].deleted /\ Len(cs.groups[1].Global) = 1}

ViewPayloads ==
    UNION {{SubSeq(CraftStream(cs), 1, k) : k \in 1..Len(CraftStream(cs))} :
               cs \in ViewStreams}

ViewInit ==
    /\ BufIdle
    /\ wire = NoPayload
    /\ dec = NoDecode
    /\ encoder = IdleEncoder
    /\ rf = IdleRead
    /\ vf = NoVerify
    /\ \E kind \in BufferKinds, bytes \in ViewPayloads,
          opens \in [1..2 -> OpenOutcomes] :
         /\ kind # "file" => opens = [i \in 1..2 |-> "ok"]
         /\ \E t \in {ReadType(newValueReader(bytes))} :
              call = [op |-> "readStreamListpacks0", kind |-> kind,
                      opens |-> opens, t |-> t.val, stage |-> "entriesView",
                      r |-> t.r, acc |-> newAcc(newHandler(FALSE, 0)),
                      entriesView |-> t.r, groupsView |-> t.r,
                      views |-> <<>>, files |-> [opened |-> 0, closed |-> 0],
                      deferred |-> <<>>, viewCalls |-> <<>>,
                      nilUse |-> FALSE, err |-> ""]

\* the deferred calls are dropped: no view is closed
deferredCloses_none(st, i) == st

\* the deferred calls of Close, last first: every view registered is
\* closed, and a view of the file-backed buffer closes its file
RECURSIVE deferredCloses(_, _)
deferredCloses(st, i) ==
    IF i = 0 THEN st
    ELSE deferredCloses(
             [st EXCEPT
                !.views[st.deferred[i]].closed = @ + 1,
                !.files.closed = IF st.kind = "file" THEN @ + 1 ELSE @],
             i - 1)

\* return 0, err and return read, nil
streamReturn(st, err) ==
    [deferredCloses(st, Len(st.deferred))
        EXCEPT !.stage = "returned", !.err = err]

\* a method called on a nil view: the run-time panic unwinds the call, the
\* deferred calls run
streamPanic(st) ==
    [deferredCloses(st, Len(st.deferred))
        EXCEPT !.stage = "panicked", !.nilUse = TRUE, !.err = errNilView]

\* r.buf.View(r.buf.Pos()) and defer view.Close()
openView(st, name, next) ==
    (CHOOSE the \in {
    (CHOOSE the \in {
        IF x.err # "" THEN streamReturn(called, x.err)
        ELSE IF x.nil THEN streamPanic(called)
        ELSE [called EXCEPT
                !.stage = next,
                !.entriesView = IF name = "entries" THEN x.view ELSE @,
                !.groupsView = IF name = "groups" THEN x.view ELSE @,
                !.views = Append(@, [name |-> name, closed |-> 0]),
                !.deferred = Append(@, Len(st.views) + 1)]
      : called \in {[st EXCEPT
                       !.viewCalls = Append(@, [supports |->
                                                   SupportsView(st.kind)]),
                       !.files = [opened |-> @.opened + x.opened,
                                  closed |-> @.closed + x.closed]]} } : TRUE)
      : x \in {buffer_View(st.kind, st.r, Pos(st.r),
                           st.opens[Len(st.viewCalls) + 1])} } : TRUE)

InStream(stage) == call.op = "readStreamListpacks0" /\ call.stage = stage

\* entriesView, err := r.buf.View(r.buf.Pos()); defer entriesView.Close()
VwEntriesView ==
    /\ InStream("entriesView")
    /\ call' = openView(call, "entries", "entries")
    /\ UNCHANGED <<bufVars, wire, dec, encoder, rf, vf>>

\* the first pass over the entries
VwEntries ==
    /\ InStream("entries")
    /\ \E x \in {readStreamEntries(call.r, call.acc, "deliver",
                                   ContainerKey)} :
         call' = IF x.err # ""
                 THEN streamReturn([call EXCEPT !.r = x.r, !.acc = x.acc],
                                   x.err)
                 ELSE [call EXCEPT !.r = x.r, !.acc = x.acc,
                                   !.stage = "metadata"]
    /\ UNCHANGED <<bufVars, wire, dec, encoder, rf, vf>>

\* the length, the last ID and, from TypeStreamListpacks2 on, the first
\* ID, the maximal deleted ID and the entries added
VwMetadata ==
    /\ InStream("metadata")
    /\ \E x \in {readLens(call.r, IF call.t >= TypeStreamListpacks2
                                  THEN 8 ELSE 3)} :
         call' = IF x.err # ""
                 THEN streamReturn([call EXCEPT !.r = x.r], x.err)
                 ELSE [call EXCEPT !.r = x.r, !.stage = "groupsView"]
    /\ UNCHANGED <<bufVars, wire, dec, encoder, rf, vf>>

\* groupsView, err := r.buf.View(r.buf.Pos()); defer groupsView.Close()
VwGroupsView ==
    /\ InStream("groupsView")
    /\ call' = openView(call, "groups", "groups")
    /\ UNCHANGED <<bufVars, wire, dec, encoder, rf, vf>>

\* the first pass over the groups
VwGroups ==
    /\ InStream("groups")
    /\ \E x \in {readStreamConsumerGroups(call.r, call.t, call.acc,
                                          "collect", ContainerKey)} :
         call' = IF x.err # ""
                 THEN streamReturn([call EXCEPT !.r = x.r, !.acc = x.acc],
                                   x.err)
                 ELSE [call EXCEPT !.r = x.r, !.acc = x.acc,
                                   !.stage = "entries2"]
    /\ UNCHANGED <<bufVars, wire, dec, encoder, rf, vf>>

\* the second pass over the entries, through the entries view
VwSecondEntries ==
    /\ InStream("entries2")
    /\ \E x \in {readStreamEntries(call.entriesView, call.acc, "collect",
                                   ContainerKey)} :
         call' = IF x.err # ""
                 THEN streamReturn([call EXCEPT !.entriesView = x.r,
                                                !.acc = x.acc], x.err)
                 ELSE [call EXCEPT !.entriesView = x.r, !.acc = x.acc,
                                   !.stage = "groups2"]
    /\ UNCHANGED <<bufVars, wire, dec, encoder, rf, vf>>

\* the second pass over the groups, through the groups view, and the
\* return
VwSecondGroups ==
    /\ InStream("groups2")
    /\ \E x \in {readStreamConsumerGroups(call.groupsView, call.t, call.acc,
                                          "deliver", ContainerKey)} :
         call' = streamReturn([call EXCEPT !.groupsView = x.r,
                                           !.acc = x.acc], x.err)
    /\ UNCHANGED <<bufVars, wire, dec, encoder, rf, vf>>

ViewNext ==
    \/ VwEntriesView
    \/ VwEntries
    \/ VwMetadata
    \/ VwGroupsView
    \/ VwGroups
    \/ VwSecondEntries
    \/ VwSecondGroups

SpecView == ViewInit /\ [][ViewNext]_vars

(***************************************************************************)
(* C28: the decode of a stream calls View only on a buffer that supports   *)
(* views and calls no method of a nil view: from every kind of buffer it   *)
(* ends with a return, never with a run-time panic.                        *)
(***************************************************************************)
C28_ViewOnlyWhereSupported ==
    call.op = "readStreamListpacks0" =>
        /\ \A i \in DOMAIN call.viewCalls : call.viewCalls[i].supports
        /\ ~call.nilUse
        /\ call.stage # "panicked"

(***************************************************************************)
(* C29: when the decode of a stream has returned, every view it opened has *)
(* been closed exactly once and every file opened for a view is closed;    *)
(* before the return no view has been closed.                              *)
(***************************************************************************)
C29_ViewsClosedOnce ==
    call.op = "readStreamListpacks0" =>
        /\ call.stage \in {"returned", "panicked"} =>
               /\ \A i \in DOMAIN call.views : call.views[i].closed = 1
               /\ call.files.closed = call.files.opened
        /\ call.stage \notin {"returned", "panicked"} =>
               \A i \in DOMAIN call.views : call.views[i].closed = 0

\* the second view could not be opened: the call returned the error and
\* the entries view, the only one open, was closed
C29_Witness ==
    /\ call.op = "readStreamListpacks0"
    /\ call.kind = "file"
    /\ call.stage = "returned"
    /\ call.err = errSeek
    /\ Len(call.viewCalls) = 2
    /\ Len(call.views) = 1
    /\ call.views[1].closed = 1
    /\ call.files = [opened |-> 2, closed |-> 2]
(***************************************************************************)
(* Writer specification: one value written through the public calls of    *)
(* Writer, w.WriteType(t), the Write call of the type and                  *)
(* w.WriteChecksum(Version), then checked with VerifyValueChecksum and     *)
(* read back with ReadValue.  The writer is held in call.w.                *)
(***************************************************************************)
WriterStrings == {<<>>, <<97>>, <<98, 99>>}

WriterLists == UNION {[1..n -> WriterStrings] : n \in 0..2}

WriterHashes ==
    UNION {[keys -> {<<>>, <<49>>}] : keys \in SUBSET {<<97>>, <<98, 99>>}}

\* a stream of two entries and two groups: each group has one consumer, to
\* which both entries are pending
TwoGroupStream ==
    LET entries == <<[ID |-> StreamID(0, 0), Value |-> <<>>],
                     [ID |-> StreamID(1, 1), Value |-> <<>>]>>
        group(name) ==
            [Name |-> <<name>>, LastID |-> StreamID(1, 1),
             EntriesRead |-> U64(2),
             Consumers |-> <<ConsumerOf(entries, 97, 5,
                                        <<StreamID(0, 0), StreamID(1, 1)>>)>>]
    IN  [Entries |-> entries, Length |-> U64(2), LastID |-> StreamID(1, 1),
         Groups |-> <<group(97), group(98)>>]

WriterOrders == {<<<<97>>, <<98, 99>>>>, <<<<98, 99>>, <<97>>>>}

WriterValues ==
    {[kind |-> "string", t |-> TypeString, str |-> v] : v \in WriterStrings}
        \cup {[kind |-> "list", t |-> TypeList, list |-> v] : v \in WriterLists}
        \cup {[kind |-> "set", t |-> TypeSet, set |-> v] : v \in WriterLists}
        \cup {[kind |-> "zset", t |-> TypeZset2, elements |-> v,
               scores |-> sc] :
                  v \in WriterLists,
                  sc \in UNION {[1..n -> {ScoreBits, negInfBits}] :
                                    n \in 0..2}}
        \cup {[kind |-> "hash", t |-> TypeHash, hash |-> v, order |-> o] :
                  v \in WriterHashes, o \in WriterOrders}
        \cup {[kind |-> "json", t |-> TypeModule2, json |-> <<123, 125>>]}
        \cup {[kind |-> "stream", t |-> TypeStreamListpacks, stream |-> v,
               orders |-> <<o>>] :
                  v \in {st \in Streams : Len(st.Groups) <= 1},
                  o \in PELOrders}
        \cup {[kind |-> "stream", t |-> TypeStreamListpacks,
               stream |-> TwoGroupStream, orders |-> <<o1, o2>>] :
                  o1 \in PELOrders, o2 \in PELOrders}

WriterInit ==
    /\ BufIdle
    /\ wire = NoPayload
    /\ dec = NoDecode
    /\ encoder = IdleEncoder
    /\ rf = IdleRead
    /\ vf = NoVerify
    /\ call = [op |-> "Writer", phase |-> "new", w |-> NewWriter,
               value |-> <<>>, err |-> "", calls |-> <<>>]

\* w.WriteType(t) for the value that will be written
WWriteType ==
    /\ call.op = "Writer"
    /\ call.phase = "new"
    /\ \E v \in WriterValues :
         call' = [call EXCEPT !.phase = "typed", !.value = v,
                              !.w = WriteType(call.w, v.t)]
    /\ UNCHANGED <<bufVars, wire, dec, encoder, rf, vf>>

\* the writer after a Write call that returned
Written(w) ==
    [call EXCEPT !.phase = IF w.err # "" THEN "failed" ELSE "valued",
                 !.w = w, !.err = w.err]

WWriteString ==
    /\ call.op = "Writer"
    /\ call.phase = "typed"
    /\ call.value.kind = "string"
    /\ call' = Written(WriteString(call.w, call.value.str))
    /\ UNCHANGED <<bufVars, wire, dec, encoder, rf, vf>>

WWriteList ==
    /\ call.op = "Writer"
    /\ call.phase = "typed"
    /\ call.value.kind = "list"
    /\ call' = Written(WriteList(call.w, call.value.list))
    /\ UNCHANGED <<bufVars, wire, dec, encoder, rf, vf>>

WWriteSet ==
    /\ call.op = "Writer"
    /\ call.phase = "typed"
    /\ call.value.kind = "set"
    /\ call' = Written(WriteSet(call.w, call.value.set))
    /\ UNCHANGED <<bufVars, wire, dec, encoder, rf, vf>>

WWriteZset ==
    /\ call.op = "Writer"
    /\ call.phase = "typed"
    /\ call.value.kind = "zset"
    /\ call' = Written(WriteZset(call.w, call.value.elements,
                                 call.value.scores))
    /\ UNCHANGED <<bufVars, wire, dec, encoder, rf, vf>>

WWriteHash ==
    /\ call.op = "Writer"
    /\ call.phase = "typed"
    /\ call.value.kind = "hash"
    /\ call' = Written(WriteHash(call.w, call.value.hash, call.value.order))
    /\ UNCHANGED <<bufVars, wire, dec, encoder, rf, vf>>

WWriteJSON ==
    /\ call.op = "Writer"
    /\ call.phase = "typed"
    /\ call.value.kind = "json"
    /\ call' = Written(WriteJSON(call.w, call.value.json))
    /\ UNCHANGED <<bufVars, wire, dec, encoder, rf, vf>>

WWriteStream ==
    /\ call.op = "Writer"
    /\ call.phase = "typed"
    /\ call.value.kind = "stream"
    /\ call' = Written(WriteStream(call.w, call.value.stream,
                                   call.value.orders))
    /\ UNCHANGED <<bufVars, wire, dec, encoder, rf, vf>>

\* w.WriteChecksum(Version)
WWriteChecksum ==
    /\ call.op = "Writer"
    /\ call.phase = "valued"
    /\ \E w \in {WriteChecksum(call.w, Version)} :
         call' = [call EXCEPT !.phase = "summed", !.w = w, !.err = w.err]
    /\ UNCHANGED <<bufVars, wire, dec, encoder, rf, vf>>

\* VerifyValueChecksum(w.GetBuffer()), then
\* ReadValue(key, w.GetBuffer(), handler)
WReadValue ==
    /\ call.op = "Writer"
    /\ call.phase = "summed"
    /\ \E e \in {VerifyValueChecksum(GetBuffer(call.w))} :
       \E o \in {ReadValue(ContainerKey, GetBuffer(call.w),
                           newHandler(FALSE, 0))} :
         call' = [call EXCEPT !.phase = "read",
                              !.err = IF e # "" THEN e ELSE o.err,
                              !.calls = IF e # "" THEN <<>> ELSE o.hs.calls]
    /\ UNCHANGED <<bufVars, wire, dec, encoder, rf, vf>>

WriterNext ==
    \/ WWriteType
    \/ WWriteString
    \/ WWriteList
    \/ WWriteSet
    \/ WWriteZset
    \/ WWriteHash
    \/ WWriteJSON
    \/ WWriteStream
    \/ WWriteChecksum
    \/ WReadValue

SpecWriter == WriterInit /\ [][WriterNext]_vars

\* the arguments of the calls named h, in the order of the calls
WriterCalls(h) ==
    [k \in DOMAIN SelectSeq(call.calls, LAMBDA c : c.h = h) |->
        SelectSeq(call.calls, LAMBDA c : c.h = h)[k].args]

\* what was written is what ReadValue hands to the handler: the elements
\* of a list and of a set in their order, the elements of a sorted set with
\* their scores, the fields of a hash in the order the map was walked, the
\* JSON text with the JSON marker; the write fails only for a sorted set
\* whose elements and scores differ in number; and the buffer ends with the
\* version and the CRC of all the bytes before the CRC
WriterRoundTrip ==
    /\ (call.op = "Writer" /\ call.phase = "failed")
           => /\ call.value.kind = "zset"
              /\ Len(call.value.elements) # Len(call.value.scores)
              /\ call.err = errZsetLengths
              /\ GetBuffer(call.w) = <<TypeZset2>>
    /\ (call.op = "Writer" /\ call.phase \in {"summed", "read"})
           => LET buf == GetBuffer(call.w)
                  n == Len(buf)
              IN  /\ n >= 11
                  /\ SubSeq(buf, n - 9, n - 8) = LE16(Version)
                  /\ SubSeq(buf, n - 7, n)
                         = Swap64(getCRC(Zero64, SubSeq(buf, 1, n - 8)))
    /\ (call.op = "Writer" /\ call.phase = "read")
           => /\ call.err = ""
              /\ call.value.kind = "string"
                     => WriterCalls("String") = <<<<call.value.str>>>>
              /\ call.value.kind = "list"
                     => WriterCalls("ListEntry")
                            = [k \in DOMAIN call.value.list |->
                                  <<call.value.list[k]>>]
              /\ call.value.kind = "set"
                     => WriterCalls("SetEntry")
                            = [k \in DOMAIN call.value.set |->
                                  <<call.value.set[k]>>]
              /\ call.value.kind = "zset"
                     => WriterCalls("ZsetEntry")
                            = [k \in DOMAIN call.value.elements |->
                                  <<call.value.elements[k],
                                    call.value.scores[k]>>]
              /\ call.value.kind = "hash"
                     => WriterCalls("HashEntry")
                            = [k \in DOMAIN SelectSeq(call.value.order,
                                       LAMBDA f : f \in DOMAIN call.value.hash)
                                  |-> LET f == SelectSeq(call.value.order,
                                                LAMBDA g :
                                                    g \in DOMAIN call.value.hash)[k]
                                      IN  <<f, call.value.hash[f]>>]
              /\ call.value.kind = "json"
                     => WriterCalls("Module")
                            = <<<<call.value.json, JSONModuleMarker>>>>
              /\ call.value.kind = "stream"
                     => Len(WriterCalls("StreamEntry"))
                            = Len(call.value.stream.Entries)
====
